---- MODULE Spec2Model ----
(***************************************************************************)
(* A model of analysis_engine.algo.BaseAlgo (the algorithm engine) and of  *)
(* analysis_engine.work_tasks.publish_pricing_update (the pricing          *)
(* republish worker task).                                                 *)
(*                                                                         *)
(* The engine object is one record, algo, whose fields are the member      *)
(* variables of BaseAlgo; every method is an operator from an engine       *)
(* record (and the method's arguments) to the engine record it leaves.     *)
(* Money is counted in whole units.  Python's None is the empty tuple and  *)
(* an optional value x is the one-element tuple <<x>>.                     *)
(***************************************************************************)
EXTENDS Integers, Sequences, FiniteSets, TLC

VARIABLES
    algo,        \* the BaseAlgo object: a record of its member variables
    pc,          \* where the engine's caller is: "idle", or a step of handle_data
    frame,       \* the local variables of the running handle_data call
    last_call,   \* the last finished method call: its arguments and what it gave back
    ncalls,      \* number of method calls made so far
    sinks,       \* what was handed to the Multi-Sink Publish Utility, in order
    strategy,    \* the engine's class: "base" (BaseAlgo.process) or "derived"
    tasks,       \* the publish_pricing_update invocations: position and locals of each
    archive,     \* the archive (s3): bucket name -> object key -> body
    cache,       \* the cache (redis): key -> value
    contacts,    \* every call the worker task made on a sink, in order
    env,         \* the process-wide toggles of analysis_engine.consts
    wrapper      \* the run_publish_pricing_update call: its position and locals

enginevars == <<algo, pc, frame, last_call, ncalls, sinks, strategy>>
taskvars == <<tasks, archive, cache, contacts, env, wrapper>>
vars == <<algo, pc, frame, last_call, ncalls, sinks, strategy,
          tasks, archive, cache, contacts, env, wrapper>>

\* ---------------------------------------------------------------- bounds

\* method calls (orders, publishes) per run of the model
MaxCalls == 2
\* dataset nodes per ticker in a multi-ticker dataset map
MaxNodes == 2
\* handle_data invocations per run of the model, or since the last reset
MaxRuns == 1
\* nodes per handle_data invocation for which the history builder gives no entry
MaxSkips == 1

\* ------------------------------------------------------------ Python values

None == <<>>
Opt(x) == <<x>>
\* Python truthiness of an optional integer: None and 0 are falsy
Truthy(o) == o # None /\ o[1] # 0

\* status codes of analysis_engine.consts
NOT_RUN == "NOT_RUN"
INVALID == "INVALID"
SUCCESS == "SUCCESS"
ERR == "ERR"
TRADE_FILLED == "TRADE_FILLED"
TRADE_NOT_ENOUGH_FUNDS == "TRADE_NOT_ENOUGH_FUNDS"
TRADE_NO_SHARES_TO_SELL == "TRADE_NO_SHARES_TO_SELL"

\* ------------------------------------------------------------ input domains

\* ticker symbols a caller may name (the engine trades the configured ones)
Symbols == {"SPY", "AAPL"}
\* the ticker lists an engine may be constructed with
TickerLists == {<<"SPY">>, <<"SPY", "AAPL">>, <<"AAPL", "SPY">>, <<"SPY", "SPY">>}
\* starting balances, commissions and close prices
Balances == {1, 8}
Commissions == {1}
Closes == {2, 3}
\* explicit share counts a caller may ask for (None: not given)
ShareArgs == {None, Opt(1), Opt(4)}

Min(x, y) == IF x <= y THEN x ELSE y

\* ------------------------------------------------------- order construction

\* analysis_engine.build_buy_order.build_buy_order (the buy contract)
BuildBuyOrder(ticker, close, num_owned, shares, balance, commission) ==
    LET want == IF shares = None
                THEN (balance - commission) \div close
                ELSE shares[1]
        cost == want * close + commission
    IN  IF want >= 1 /\ cost <= balance
        THEN [ticker |-> ticker, status |-> TRADE_FILLED, shares |-> want,
              price |-> close, balance |-> balance - cost]
        ELSE [ticker |-> ticker, status |-> TRADE_NOT_ENOUGH_FUNDS, shares |-> 0,
              price |-> close, balance |-> balance]

\* analysis_engine.build_sell_order.build_sell_order (the sell contract)
BuildSellOrder(ticker, close, num_owned, shares, balance, commission) ==
    LET want == IF shares = None THEN num_owned ELSE Min(shares[1], num_owned)
    IN  IF num_owned > 0
        THEN [ticker |-> ticker, status |-> TRADE_FILLED, shares |-> want,
              price |-> close, balance |-> balance + (want * close - commission)]
        ELSE [ticker |-> ticker, status |-> TRADE_NO_SHARES_TO_SELL, shares |-> 0,
              price |-> close, balance |-> balance]

\* --------------------------------------------------------------- positions

\* BaseAlgo.get_owned_shares
GetOwnedShares(a, ticker) ==
    IF ticker \in DOMAIN a.positions THEN a.positions[ticker].shares ELSE 0

\* BaseAlgo.get_ticker_positions: (num_owned, buys, sells)
GetTickerPositions(a, ticker) ==
    IF ticker \in DOMAIN a.positions
    THEN <<Opt(a.positions[ticker].shares), Opt(a.positions[ticker].buys),
           Opt(a.positions[ticker].sells)>>
    ELSE <<None, None, None>>

\* (self.num_owned, self.num_buys, self.num_sells) = self.get_ticker_positions(ticker)
RefreshTickerPositions(a, ticker) ==
    LET p == GetTickerPositions(a, ticker)
    IN  [a EXCEPT !.num_owned = p[1], !.num_buys = p[2], !.num_sells = p[3]]

\* ------------------------------------------------------------ construction

\* a path or key is a tuple of its parts; None is <<>> and '' is <<"">>
EmptyStr == <<"">>
Falsy(s) == s = None \/ s = EmptyStr
\* '{}'.format(x): None prints as the text None
Fmt(s) == IF s = None THEN <<"None">> ELSE s

TestDir == <<"/opt/sa/tests/datasets/algo">>

\* dict.get(key, default) on a configuration map (a function on the keys given)
Get(d, k, default) == IF k \in DOMAIN d THEN d[k] ELSE default

\* build_publish_request.build_publish_request(): no key set
EmptyConfig == [k \in {} |-> None]

\* ticker.upper()
Upper(t) == CASE t = "spy" -> "SPY" [] t = "aapl" -> "AAPL" [] OTHER -> t

\* a pd.DataFrame: rows is the number of its rows and columns the map from its
\* column names to the cells of its last row; a cell is <<n>>, or <<>> when it
\* holds nothing float() or int() can read
DataFrame(rows, columns) == [rows |-> rows, columns |-> columns]
\* pd.DataFrame([{}]), the shared empty placeholder: one row, no column
EmptyPd == DataFrame(1, [c \in {} |-> None])
\* a dict holding the items given; {} is Dict(<<>>)
Dict(items) == [items |-> items]
\* hasattr(v, 'empty'): a DataFrame has the attribute, a dict has not
HasEmpty(v) == "columns" \in DOMAIN v

\* the dataset keys of a node's data map whose default is the placeholder,
\* each with the member load_from_dataset loads it into
TabularKeys ==
    [df_daily |-> "daily", df_minute |-> "minute", df_stats |-> "stats",
     df_peers |-> "peers", df_financials |-> "financials",
     df_earnings |-> "earnings", df_dividends |-> "dividends",
     df_quote |-> "quote", df_company |-> "company", df_iex_news |-> "news1",
     df_yahoo_news |-> "news", df_options |-> "options"]

\* the process-wide toggles as analysis_engine.consts defaults them: both off
DefaultEnv == [ENABLED_S3_UPLOAD |-> FALSE, ENABLED_REDIS_PUBLISH |-> FALSE]

\* analysis_engine.consts: the archive endpoint, the three default buckets
\* and the three default compression flags
S3_ADDRESS == <<"localhost", ":", "9000">>
ALGO_INPUT_DATASET_S3_BUCKET_NAME == <<"algoready">>
ALGO_HISTORY_DATASET_S3_BUCKET_NAME == <<"algohistory">>
ALGO_REPORT_DATASET_S3_BUCKET_NAME == <<"algoreport">>
ALGO_INPUT_COMPRESS == TRUE
ALGO_HISTORY_COMPRESS == TRUE
ALGO_REPORT_COMPRESS == TRUE

\* 'not x' on a flag argument that is None (<<>>), False or True
NotFlag(x) == x = None \/ x = Opt(FALSE)

\* the constructor's publish_to_s3 or publish_to_redis member: the argument,
\* replaced by the process-wide toggle when it is None or False
PublishTo(flag, toggle) == IF NotFlag(flag) THEN toggle ELSE flag[1]

\* the publish-configuration record of one surface: member <surface>_<field>
\* of the engine for each field, read off the caller's map with its default.
\* The default of redis_address is the toggle ENABLED_S3_UPLOAD, a boolean,
\* held here as <<toggle>>
SurfaceMembers(config, name, toggles, to_redis, to_s3, compress, bucket, redis_key) ==
    [label |-> Get(config, "label", name),
     compress |-> Get(config, "compress", compress),
     redis_enabled |-> Get(config, "redis_enabled", to_redis),
     redis_address |-> Get(config, "redis_address", Opt(toggles.ENABLED_S3_UPLOAD)),
     s3_enabled |-> Get(config, "s3_enabled", to_s3),
     s3_address |-> Get(config, "s3_address", S3_ADDRESS),
     s3_bucket |-> Get(config, "s3_bucket", bucket),
     slack_enabled |-> Get(config, "slack_enabled", FALSE),
     redis_key |-> Get(config, "redis_key", redis_key),
     verbose |-> Get(config, "verbose", FALSE)]

\* name.replace(' ', ''): the parts of the name that are not a blank
NoBlanks(name) == SelectSeq(name, LAMBDA p : p # " ")

\* the tracking key without the time it was made at
DefaultKeyWithoutTime(name, now) == NoBlanks(name)

\* the default of save_as_key: '{}-{}'.format(name.replace(' ', ''), now), now
\* being utc_now_str(fmt='%Y-%m-%d-%H-%M-%S.%f') as the constructor reads it
DefaultKey(name, now) == NoBlanks(name) \o <<"-">> \o now

\* BaseAlgo.__init__ up to the external load: the member variables as the
\* constructor sets them from its arguments
InitMembers(args) ==
    LET tickers == IF args.tickers # None
                   THEN args.tickers
                   ELSE IF args.ticker # None THEN <<Upper(args.ticker[1])>> ELSE None
        prefix == IF args.raise_on_err /\ tickers # None /\ Len(tickers) > 0
                  THEN <<Upper(tickers[1])>> ELSE None
        name == IF Falsy(args.name) THEN <<"eqa">> ELSE args.name
        key == IF Falsy(args.use_key) THEN DefaultKey(name, args.now)
               ELSE args.use_key
        dir == IF Falsy(args.output_dir) THEN args.output_dir ELSE TestDir
        to_s3 == PublishTo(args.publish_to_s3, args.env.ENABLED_S3_UPLOAD)
        to_redis == PublishTo(args.publish_to_redis, args.env.ENABLED_REDIS_PUBLISH)
    IN  [name |-> name,
         buys |-> <<>>,
         sells |-> <<>>,
         tickers |-> tickers,
         balance |-> args.balance,
         starting_balance |-> args.balance,
         starting_close |-> 0,
         commission |-> args.commission,
         num_owned |-> None,
         num_buys |-> None,
         num_sells |-> None,
         trade_price |-> 0,
         latest_close |-> 0,
         prev_bal |-> None,
         prev_num_owned |-> None,
         ds_id |-> None,
         trade_date |-> None,
         order_history |-> <<>>,
         positions |-> [t \in {} |-> None],
         created_buy |-> FALSE,
         should_buy |-> FALSE,
         created_sell |-> FALSE,
         should_sell |-> FALSE,
         last_handle_data |-> None,
         last_history_dict |-> None,
         last_ds_id |-> None,
         last_ds_date |-> None,
         ds_date |-> None,
         ds_data |-> None,
         df_daily |-> EmptyPd,
         df_minute |-> EmptyPd,
         df_stats |-> EmptyPd,
         df_peers |-> EmptyPd,
         df_financials |-> DataFrame(0, [c \in {} |-> None]),
         df_earnings |-> EmptyPd,
         df_dividends |-> EmptyPd,
         df_quote |-> EmptyPd,
         df_company |-> EmptyPd,
         df_iex_news |-> EmptyPd,
         df_yahoo_news |-> EmptyPd,
         df_options |-> EmptyPd,
         df_pricing |-> Dict(<<>>),
         ticker |-> None,
         debug_msg |-> <<"">>,
         publish_to_s3 |-> to_s3,
         publish_to_redis |-> to_redis,
         surface |->
             [input |-> SurfaceMembers(
                            args.input_config, name, args.env, to_redis, to_s3,
                            ALGO_INPUT_COMPRESS, ALGO_INPUT_DATASET_S3_BUCKET_NAME,
                            <<"algo:input:">> \o key),
              history |-> SurfaceMembers(
                            args.history_config, name, args.env, to_redis, to_s3,
                            ALGO_HISTORY_COMPRESS, ALGO_HISTORY_DATASET_S3_BUCKET_NAME,
                            <<"algo:history:">> \o key),
              report |-> SurfaceMembers(
                            args.report_config, name, args.env, to_redis, to_s3,
                            ALGO_REPORT_COMPRESS, ALGO_REPORT_DATASET_S3_BUCKET_NAME,
                            <<"algo:output:">> \o key)],
         publish_history |-> args.publish_history,
         publish_report |-> args.publish_report,
         publish_input |-> args.publish_input,
         raise_on_err |-> args.raise_on_err,
         output_file_prefix |-> prefix,
         save_as_key |-> key,
         output_file_dir |-> dir,
         default_output_file |-> Fmt(dir) \o <<"/">> \o key \o <<".json">>,
         input_output_file |->
             Get(args.input_config, "output_file",
                 Fmt(dir) \o <<"/input-">> \o key \o <<".json">>),
         history_output_file |->
             Get(args.history_config, "output_file",
                 Fmt(dir) \o <<"/history-">> \o key \o <<".json">>),
         report_output_file |->
             Get(args.report_config, "output_file",
                 Fmt(dir) \o <<"/report-">> \o key \o <<".json">>),
         load_from_s3 |-> args.load_from_s3,
         load_from_redis |-> args.load_from_redis,
         load_from_file |-> args.load_from_file,
         loaded_dataset |-> None]

\* the arguments of load_from_external_source when none is given
NoSelectors == [path_to_file |-> None, s3_key |-> None, redis_key |-> None]

\* BaseAlgo.load_from_external_source(path_to_file, s3_key, redis_key), called
\* by the constructor with no argument: file.exists is
\* os.path.exists(load_from_file) and file.content what the Dataset File
\* Loader returns for it (None: a falsy result, else the dataset map read)
LoadFromExternalSource(a, sel, file) ==
    LET a1 == [a EXCEPT
                  !.load_from_file = IF Falsy(sel.path_to_file) THEN @
                                     ELSE sel.path_to_file,
                  !.load_from_s3 = IF Falsy(sel.s3_key) THEN @ ELSE sel.s3_key,
                  !.load_from_redis = IF Falsy(sel.redis_key) THEN @
                                      ELSE sel.redis_key]
    IN  IF ~Falsy(a1.load_from_s3)
        THEN [algo |-> [a1 EXCEPT !.debug_msg = <<"external load START - s3">>],
              raised |-> FALSE]
        ELSE IF ~Falsy(a1.load_from_redis)
        THEN [algo |-> [a1 EXCEPT !.debug_msg = <<"external load START - redis">>],
              raised |-> FALSE]
        ELSE IF Falsy(a1.load_from_file)
        THEN [algo |-> a1, raised |-> FALSE]
        ELSE IF ~file.exists
        THEN [algo |-> [a1 EXCEPT
                           !.debug_msg = <<"external load - did not find file">>],
              raised |-> TRUE]
        ELSE IF file.content = None
        THEN [algo |-> [a1 EXCEPT !.loaded_dataset = None,
                                  !.debug_msg = <<"external load FAILED">>],
              raised |-> TRUE]
        ELSE [algo |-> [a1 EXCEPT !.loaded_dataset = file.content,
                                  !.debug_msg = <<"external load SUCCESS">>],
              raised |-> FALSE]

\* load_from_config taking every key of the map, known to the engine or not
LoadFromConfigCreatesMembers(a, config_dict) == config_dict @@ a

\* BaseAlgo.load_from_config
LoadFromConfig(a, config_dict) ==
    [k \in DOMAIN a |-> IF k \in DOMAIN config_dict THEN config_dict[k] ELSE a[k]]

\* BaseAlgo.__init__
NewAlgo(args, file) ==
    LET l == LoadFromExternalSource(InitMembers(args), NoSelectors, file)
    IN  IF l.raised THEN l
        ELSE [algo |-> LoadFromConfig(l.algo, args.config_dict), raised |-> FALSE]

\* ------------------------------------------------------------------ orders

\* row['close'] and row['date'], which both methods read before their try
\* block: a row lacking either raises KeyError there
HasCloseAndDate(row) == {"close", "date"} \subseteq DOMAIN row

\* the row of a caller, with the close given and, when dated, a date
Row(close, dated) ==
    IF dated THEN [close |-> close, date |-> <<"2018-11-02">>]
    ELSE [close |-> close]

\* create_buy_order's TRADE_FILLED branch without the balance update
BuyFilledKeepsBalance(a, ticker, new_buy) ==
    IF ticker \in DOMAIN a.positions
    THEN LET b == [a EXCEPT
                  !.positions[ticker].shares = @ + new_buy.shares,
                  !.positions[ticker].buys = Append(@, new_buy)]
         IN  [RefreshTickerPositions(b, ticker) EXCEPT !.created_buy = TRUE]
    ELSE [a EXCEPT !.positions =
              (ticker :> [shares |-> new_buy.shares,
                          buys |-> <<new_buy>>,
                          sells |-> <<>>]) @@ @]

\* create_buy_order, the TRADE_FILLED branch
BuyFilled(a, ticker, new_buy) ==
    LET a1 == IF ticker \in DOMAIN a.positions
              THEN LET b == [a EXCEPT
                            !.positions[ticker].shares = @ + new_buy.shares,
                            !.positions[ticker].buys = Append(@, new_buy)]
                   IN  [RefreshTickerPositions(b, ticker) EXCEPT !.created_buy = TRUE]
              ELSE [a EXCEPT !.positions =
                        (ticker :> [shares |-> new_buy.shares,
                                    buys |-> <<new_buy>>,
                                    sells |-> <<>>]) @@ @]
    IN  [a1 EXCEPT !.balance = new_buy.balance]

\* create_buy_order keeping only filled orders in the lifetime buy list
CreateBuyOrderDropsUnfilled(a, ticker, row, shares, fails) ==
    IF ~HasCloseAndDate(row)
    THEN [algo |-> a, raised |-> TRUE, order |-> None]
    ELSE IF fails
    THEN LET a1 == [a EXCEPT !.debug_msg = <<"buy FAILED">>]
         IN  IF a.raise_on_err
             THEN [algo |-> a1, raised |-> TRUE, order |-> None]
             ELSE [algo |-> RefreshTickerPositions(a1, ticker), raised |-> FALSE,
                   order |-> None]
    ELSE LET new_buy == BuildBuyOrder(ticker, row.close, GetOwnedShares(a, ticker),
                                      shares, a.balance, a.commission)
             a1 == IF new_buy.status = TRADE_FILLED
                   THEN [BuyFilled(a, ticker, new_buy) EXCEPT
                            !.buys = Append(@, new_buy)]
                   ELSE a
         IN  [algo |-> RefreshTickerPositions(a1, ticker), raised |-> FALSE,
              order |-> Opt(new_buy)]

\* BaseAlgo.create_buy_order; fails: the order-construction call raises
CreateBuyOrder(a, ticker, row, shares, fails) ==
    IF ~HasCloseAndDate(row)
    THEN [algo |-> a, raised |-> TRUE, order |-> None]
    ELSE IF fails
    THEN LET a1 == [a EXCEPT !.debug_msg = <<"buy FAILED">>]
         IN  IF a.raise_on_err
             THEN [algo |-> a1, raised |-> TRUE, order |-> None]
             ELSE [algo |-> RefreshTickerPositions(a1, ticker), raised |-> FALSE,
                   order |-> None]
    ELSE LET new_buy == BuildBuyOrder(ticker, row.close, GetOwnedShares(a, ticker),
                                      shares, a.balance, a.commission)
             a1 == IF new_buy.status = TRADE_FILLED
                   THEN BuyFilled(a, ticker, new_buy) ELSE a
             a2 == [a1 EXCEPT !.buys = Append(@, new_buy)]
         IN  [algo |-> RefreshTickerPositions(a2, ticker), raised |-> FALSE,
              order |-> Opt(new_buy)]

\* create_sell_order, the TRADE_FILLED branch
SellFilled(a, ticker, new_sell) ==
    LET a1 == IF ticker \in DOMAIN a.positions
              THEN LET b == [a EXCEPT
                            !.positions[ticker].shares = @ + new_sell.shares,
                            !.positions[ticker].sells = Append(@, new_sell)]
                   IN  [RefreshTickerPositions(b, ticker) EXCEPT !.created_sell = TRUE]
              ELSE [a EXCEPT !.positions =
                        (ticker :> [shares |-> new_sell.shares,
                                    buys |-> <<>>,
                                    sells |-> <<new_sell>>]) @@ @]
    IN  [a1 EXCEPT !.balance = new_sell.balance]

\* create_sell_order taking every order the builder returns as filled
CreateSellOrderAlwaysFills(a, ticker, row, shares, fails) ==
    IF ~HasCloseAndDate(row)
    THEN [algo |-> a, raised |-> TRUE, order |-> None]
    ELSE IF fails
    THEN LET a1 == [a EXCEPT !.debug_msg = <<"sell FAILED">>]
         IN  IF a.raise_on_err
             THEN [algo |-> a1, raised |-> TRUE, order |-> None]
             ELSE [algo |-> RefreshTickerPositions(a1, ticker), raised |-> FALSE,
                   order |-> None]
    ELSE LET new_sell == BuildSellOrder(ticker, row.close, GetOwnedShares(a, ticker),
                                        shares, a.balance, a.commission)
             a1 == SellFilled(a, ticker, new_sell)
             a2 == [a1 EXCEPT !.sells = Append(@, new_sell)]
         IN  [algo |-> RefreshTickerPositions(a2, ticker), raised |-> FALSE,
              order |-> Opt(new_sell)]

\* BaseAlgo.create_sell_order; fails: the order-construction call raises
CreateSellOrder(a, ticker, row, shares, fails) ==
    IF ~HasCloseAndDate(row)
    THEN [algo |-> a, raised |-> TRUE, order |-> None]
    ELSE IF fails
    THEN LET a1 == [a EXCEPT !.debug_msg = <<"sell FAILED">>]
         IN  IF a.raise_on_err
             THEN [algo |-> a1, raised |-> TRUE, order |-> None]
             ELSE [algo |-> RefreshTickerPositions(a1, ticker), raised |-> FALSE,
                   order |-> None]
    ELSE LET new_sell == BuildSellOrder(ticker, row.close, GetOwnedShares(a, ticker),
                                        shares, a.balance, a.commission)
             a1 == IF new_sell.status = TRADE_FILLED
                   THEN SellFilled(a, ticker, new_sell) ELSE a
             a2 == [a1 EXCEPT !.sells = Append(@, new_sell)]
         IN  [algo |-> RefreshTickerPositions(a2, ticker), raised |-> FALSE,
              order |-> Opt(new_sell)]

\* ----------------------------------------------------------- dataset replay

\* get_supported_tickers_in_data without the membership test
AllConfiguredTickers(tickers, data) == tickers

\* BaseAlgo.get_supported_tickers_in_data
RECURSIVE GetSupportedTickersInData(_, _)
GetSupportedTickersInData(tickers, data) ==
    IF tickers = <<>> THEN <<>>
    ELSE (IF Head(tickers) \in DOMAIN data THEN <<Head(tickers)>> ELSE <<>>)
         \o GetSupportedTickersInData(Tail(tickers), data)

\* the (ticker, node) pairs the two loops of handle_data visit, in order
RECURSIVE WorkList(_, _)
WorkList(data_for_tickers, data) ==
    IF data_for_tickers = <<>> THEN <<>>
    ELSE [i \in 1..Len(data[Head(data_for_tickers)]) |->
             [ticker |-> Head(data_for_tickers),
              node |-> data[Head(data_for_tickers)][i]]]
         \o WorkList(Tail(data_for_tickers), data)

\* the extraction of the latest prices taking every close as the starting close
LatestPricesRestartsClose(a) ==
    IF "close" \notin DOMAIN a.df_daily.columns
    THEN [algo |-> a, failed |-> FALSE]
    ELSE IF a.df_daily.columns["close"] = <<>>
    THEN [algo |-> a, failed |-> TRUE]
    ELSE LET c == a.df_daily.columns["close"][1]
         IN  [algo |-> [a EXCEPT !.latest_close = c, !.trade_price = c,
                                 !.starting_close = c],
              failed |-> FALSE]

\* load_from_dataset, the extraction of the latest prices (the try block)
LatestPrices(a) ==
    IF "close" \notin DOMAIN a.df_daily.columns
    THEN [algo |-> a, failed |-> FALSE]
    ELSE IF a.df_daily.columns["close"] = <<>>
    THEN [algo |-> a, failed |-> TRUE]
    ELSE LET c == a.df_daily.columns["close"][1]
         IN  [algo |-> [a EXCEPT !.latest_close = c,
                                 !.trade_price = c,
                                 !.starting_close = IF @ = 0 THEN c ELSE @],
              failed |-> FALSE]

\* the except clause of the extraction never raising again
LatestPricesFailedQuietly(a) ==
    [algo |-> [a EXCEPT !.debug_msg = <<"FAILED getting latest prices">>],
     raised |-> FALSE]

\* load_from_dataset, the except clause of the extraction of the latest prices
LatestPricesFailed(a) ==
    [algo |-> [a EXCEPT !.debug_msg = <<"FAILED getting latest prices">>],
     raised |-> a.raise_on_err]

\* one dataset member as load_from_dataset leaves it: the value under the key,
\* or the default, and the placeholder instead when that has no 'empty'
Loaded(data, key, default) ==
    LET v == Get(data, key, default)
    IN  IF HasEmpty(v) THEN v ELSE EmptyPd

\* BaseAlgo.load_from_dataset
LoadFromDataset(a, node) ==
    LET a1 == [a EXCEPT !.last_ds_id = a.ds_id,
                        !.last_ds_date = a.ds_date,
                        !.ds_id = Get(node, "id", <<"missing-ID">>),
                        !.ds_date = Get(node, "date", <<"missing-DATE">>),
                        !.ds_data = IF "data" \in DOMAIN node
                                    THEN Opt(node.data) ELSE <<"missing-DATA">>]
    IN  IF "data" \notin DOMAIN node
        THEN \* 'missing-DATA'.get(...): a str has no get
             [algo |-> a1, raised |-> TRUE]
        ELSE LET a2 == [k \in DOMAIN a1 |->
                           IF k \in DOMAIN TabularKeys
                           THEN Loaded(node.data, TabularKeys[k], EmptyPd)
                           ELSE IF k = "df_pricing"
                           THEN Loaded(node.data, "pricing", Dict(<<>>))
                           ELSE IF k = "trade_date" THEN a1.ds_date
                           ELSE IF k \in {"created_buy", "created_sell",
                                          "should_buy", "should_sell"}
                           THEN FALSE
                           ELSE a1[k]]
                 p == LatestPrices(a2)
             IN  IF p.failed THEN LatestPricesFailed(p.algo)
                 ELSE [algo |-> p.algo, raised |-> FALSE]

\* analysis_engine.build_trade_history_entry.build_trade_history_entry: the
\* snapshot record, or None when the builder finds its inputs invalid
BuildTradeHistoryEntry(a, valid) ==
    IF valid
    THEN Opt([ticker |-> a.ticker, ds_id |-> a.ds_id, date |-> a.trade_date,
              num_owned |-> a.num_owned, close |-> a.trade_price,
              balance |-> a.balance, prev_balance |-> a.prev_bal,
              prev_num_owned |-> a.prev_num_owned])
    ELSE None

\* BaseAlgo.get_trade_history_node
GetTradeHistoryNode(a, valid) == BuildTradeHistoryEntry(a, valid)

\* handle_data, from its start to the first node (or to its end when the
\* loops have nothing to visit)
HandleDataBegin(a, data) ==
    LET use == IF a.loaded_dataset # None THEN a.loaded_dataset[1] ELSE data
        data_for_tickers == GetSupportedTickersInData(a.tickers, use)
        work == WorkList(data_for_tickers, use)
        a1 == [a EXCEPT !.debug_msg =
                  IF Len(data_for_tickers) > 0
                  THEN <<"handle - tickers">> ELSE <<"handle - start">>]
    IN  [algo |-> a1, data |-> use, data_for_tickers |-> data_for_tickers,
         work |-> work]

\* the end of handle_data that retains no map
HandleDataEndForgetsMap(a, data) ==
    [a EXCEPT !.debug_msg = <<"handle - end">>]

\* handle_data, after the loops
HandleDataEnd(a, data) ==
    [a EXCEPT !.last_handle_data = Opt(data), !.debug_msg = <<"handle - end">>]

\* the loop body before process going on to process without loading the node
HandleNodeLoadSkipsDataset(a, ticker, node) ==
    [algo |-> [a EXCEPT !.ticker = Opt(ticker),
                        !.prev_bal = Opt(a.balance),
                        !.prev_num_owned = a.num_owned,
                        !.debug_msg = <<"START - process">>],
     raised |-> "date" \notin DOMAIN node]

\* handle_data, the loop body before process: the snapshot and the load
HandleNodeLoad(a, ticker, node) ==
    IF "date" \notin DOMAIN node
    THEN \* node['date'] in the log line
         [algo |-> a, raised |-> TRUE]
    ELSE LET a1 == [a EXCEPT !.ticker = Opt(ticker),
                             !.prev_bal = Opt(a.balance),
                             !.prev_num_owned = a.num_owned]
             a2 == [RefreshTickerPositions(a1, ticker) EXCEPT
                        !.debug_msg = <<"START - load dataset">>]
             l == LoadFromDataset(a2, node)
         IN  IF l.raised THEN l
             ELSE [algo |-> [l.algo EXCEPT !.debug_msg = <<"START - process">>],
                   raised |-> FALSE]

\* the history append putting the new entry in front
HandleNodeHistoryInFront(a, valid) ==
    LET h == GetTradeHistoryNode(a, valid)
    IN  [a EXCEPT !.last_history_dict = h,
                  !.order_history = IF h # None THEN <<h[1]>> \o @ ELSE @,
                  !.debug_msg = <<"END - history">>]

\* handle_data, the loop body after process: the history append
HandleNodeHistory(a, valid) ==
    LET h == GetTradeHistoryNode(a, valid)
    IN  [a EXCEPT !.last_history_dict = h,
                  !.order_history = IF h # None THEN Append(@, h[1]) ELSE @,
                  !.debug_msg = <<"END - history">>]

\* the close price the base class's process passes to its example orders
ProcessClose == 270

\* BaseAlgo.process, the base class's worked example
Process(a, ticker, fails) ==
    LET a1 == [a EXCEPT !.should_sell = FALSE, !.should_buy = FALSE]
    IN  IF Truthy(a1.num_owned) /\ ~a1.created_sell
        THEN CreateSellOrder(a1, ticker, Row(ProcessClose, TRUE), None, fails)
        ELSE [algo |-> a1, raised |-> FALSE, order |-> None]

\* handle_data, the two loops over the nodes still to visit, with the base
\* class's process and builders that succeed
RECURSIVE HandleNodes(_, _, _)
HandleNodes(a, work, data) ==
    IF work = <<>> THEN [algo |-> HandleDataEnd(a, data), raised |-> FALSE]
    ELSE LET w == Head(work)
             l == HandleNodeLoad(a, w.ticker, w.node)
         IN  IF l.raised THEN [algo |-> l.algo, raised |-> TRUE]
             ELSE LET r == Process(l.algo, w.ticker, FALSE)
                  IN  IF r.raised THEN [algo |-> r.algo, raised |-> TRUE]
                      ELSE HandleNodes(HandleNodeHistory(r.algo, TRUE),
                                       Tail(work), data)

\* BaseAlgo.handle_data from its call to its return
HandleData(a, data) ==
    LET b == HandleDataBegin(a, data)
    IN  HandleNodes(b.algo, b.work, b.data)

\* BaseAlgo.reset_for_next_run
ResetForNextRun(a) ==
    [a EXCEPT !.debug_msg = <<"">>,
              !.loaded_dataset = None,
              !.last_history_dict = None,
              !.last_handle_data = None,
              !.order_history = <<>>]

\* -------------------------------------------------------------- publishing

\* the screening with the output file tested before the publish flag
PublishScreenFileFirst(a, enabled, conf_file, kind, kwargs) ==
    LET output_dir == Get(kwargs, "output_dir", a.output_file_dir)
        given == Get(kwargs, "output_file", conf_file)
        output_file == IF a.raise_on_err /\ Falsy(given)
                       THEN Fmt(output_dir) \o <<"/", kind, "-">>
                            \o Fmt(a.output_file_prefix) \o <<".json">>
                       ELSE given
    IN  [output_file |-> output_file,
         early |-> IF Falsy(output_file) THEN Opt(INVALID)
                   ELSE IF ~enabled THEN Opt(NOT_RUN)
                   ELSE None]

\* the screening without the test of the output file
PublishScreenNoFileTest(a, enabled, conf_file, kind, kwargs) ==
    LET output_dir == Get(kwargs, "output_dir", a.output_file_dir)
        given == Get(kwargs, "output_file", conf_file)
        output_file == IF a.raise_on_err /\ Falsy(given)
                       THEN Fmt(output_dir) \o <<"/", kind, "-">>
                            \o Fmt(a.output_file_prefix) \o <<".json">>
                       ELSE given
    IN  [output_file |-> output_file,
         early |-> IF ~enabled THEN Opt(NOT_RUN) ELSE None]

\* the screening all three publish methods start with: the output file they
\* settle on and the status they return early with (None: go on and publish)
PublishScreen(a, enabled, conf_file, kind, kwargs) ==
    LET output_dir == Get(kwargs, "output_dir", a.output_file_dir)
        given == Get(kwargs, "output_file", conf_file)
        output_file == IF a.raise_on_err /\ Falsy(given)
                       THEN Fmt(output_dir) \o <<"/", kind, "-">>
                            \o Fmt(a.output_file_prefix) \o <<".json">>
                       ELSE given
    IN  [output_file |-> output_file,
         early |-> IF ~enabled THEN Opt(NOT_RUN)
                   ELSE IF Falsy(output_file) THEN Opt(INVALID)
                   ELSE None]

\* what a publish method hands to publish.publish: the payload and the
\* arguments, each the keyword argument of the call or else the member
PublishRequest(a, surface, kwargs, output_file, data) ==
    [surface |-> surface,
     output_file |-> output_file,
     data |-> data,
     label |-> Get(kwargs, "label", a.name),
     compress |-> Get(kwargs, "compress", a.surface[surface].compress),
     redis_enabled |-> Get(kwargs, "redis_enabled", a.surface[surface].redis_enabled),
     redis_address |-> Get(kwargs, "redis_address", a.surface[surface].redis_address),
     s3_enabled |-> Get(kwargs, "s3_enabled", a.surface[surface].s3_enabled),
     s3_address |-> Get(kwargs, "s3_address", a.surface[surface].s3_address),
     slack_enabled |-> Get(kwargs, "slack_enabled", a.surface[surface].slack_enabled),
     verbose |-> Get(kwargs, "verbose", a.surface[surface].verbose)]

\* BaseAlgo.publish_report_datasets; publish_status: what publish.publish returns
PublishReportDatasets(a, kwargs, publish_status) ==
    LET s == PublishScreen(a, a.publish_report, a.report_output_file, "report", kwargs)
    IN  IF s.early # None
        THEN [algo |-> a, status |-> s.early[1], output_file |-> s.output_file,
              published |-> <<>>, raised |-> FALSE]
        ELSE [algo |-> a, status |-> publish_status, output_file |-> s.output_file,
              published |-> <<PublishRequest(a, "report", kwargs, s.output_file,
                                              <<"test", "hello">>)>>,
              raised |-> FALSE]

\* BaseAlgo.publish_trade_history
PublishTradeHistory(a, kwargs, publish_status) ==
    LET s == PublishScreen(a, a.publish_history, a.history_output_file, "history", kwargs)
    IN  IF s.early # None
        THEN [algo |-> a, status |-> s.early[1], output_file |-> s.output_file,
              published |-> <<>>, raised |-> FALSE]
        ELSE [algo |-> a, status |-> publish_status, output_file |-> s.output_file,
              published |-> <<PublishRequest(a, "history", kwargs, s.output_file,
                                              <<"test", "hello">>)>>,
              raised |-> FALSE]

\* publish_input_datasets, the conversion loop: load_from_dataset on every node
\* of the last handle_data map; raised when a node lacks id, date or data
RECURSIVE ConvertInput(_, _)
ConvertInput(a, work) ==
    IF work = <<>> THEN [algo |-> a, raised |-> FALSE]
    ELSE LET node == Head(work).node
         IN  IF "date" \notin DOMAIN node \/ "id" \notin DOMAIN node
             THEN [algo |-> a, raised |-> TRUE]
             ELSE LET l == LoadFromDataset(
                               [a EXCEPT !.debug_msg = <<"START - convert load dataset">>],
                               node)
                  IN  IF l.raised THEN l
                      ELSE ConvertInput(
                               [l.algo EXCEPT !.debug_msg = <<"END - convert load dataset">>],
                               Tail(work))

\* BaseAlgo.publish_input_datasets
PublishInputDatasets(a, kwargs, publish_status) ==
    LET s == PublishScreen(a, a.publish_input, a.input_output_file, "input", kwargs)
    IN  IF s.early # None
        THEN [algo |-> a, status |-> s.early[1], output_file |-> s.output_file,
              published |-> <<>>, raised |-> FALSE]
        ELSE IF a.last_handle_data = None
        THEN \* ticker in None
             [algo |-> a, status |-> NOT_RUN, output_file |-> s.output_file,
              published |-> <<>>, raised |-> TRUE]
        ELSE LET data == a.last_handle_data[1]
                 data_for_tickers == GetSupportedTickersInData(a.tickers, data)
                 a1 == IF Len(data_for_tickers) > 0
                       THEN [a EXCEPT !.debug_msg = <<"handle - tickers">>] ELSE a
                 c == ConvertInput(a1, WorkList(data_for_tickers, data))
             IN  IF c.raised
                 THEN [algo |-> c.algo, status |-> NOT_RUN,
                       output_file |-> s.output_file, published |-> <<>>,
                       raised |-> TRUE]
                 ELSE LET req == PublishRequest(c.algo, "input", kwargs,
                                                s.output_file, <<"input", data>>)
                      IN  IF ~Falsy(s.output_file) \/ req.s3_enabled
                             \/ req.redis_enabled \/ req.slack_enabled
                          THEN [algo |-> c.algo, status |-> publish_status,
                                output_file |-> s.output_file,
                                published |-> <<req>>, raised |-> FALSE]
                          ELSE [algo |-> c.algo, status |-> NOT_RUN,
                                output_file |-> s.output_file,
                                published |-> <<>>, raised |-> FALSE]

\* --------------------------------------------------------- the worker task

\* analysis_engine.consts: the default ticker placeholders
TICKER == <<"SPY">>
TICKER_ID == <<"1">>
\* analysis_engine.consts: the cache defaults
REDIS_ADDRESS == <<"localhost", ":", "6379">>
REDIS_KEY == <<"default-redis-key">>

\* int(x): <<n>> for a value int() reads as n, None when int() raises
IntOf(v) ==
    CASE v = <<"1">> -> Opt(1)
      [] v = <<"7">> -> Opt(7)
      [] OTHER -> None

\* str.split(':'): a text is the tuple of its pieces, ":" being a piece of its own
RECURSIVE Split(_)
Split(s) ==
    IF s = <<>> THEN <<<<>>>>
    ELSE LET r == Split(Tail(s))
         IN  IF Head(s) = ":" THEN <<<<>>>> \o r
             ELSE <<<<Head(s)>> \o Head(r)>> \o Tail(r)

\* analysis_engine.build_result.build_result
BuildResult(status, err, rec) == [status |-> status, err |-> err, rec |-> rec]

\* the rec the task seeds its result with
SeedRec ==
    [ticker |-> None, ticker_id |-> None, s3_enabled |-> FALSE,
     redis_enabled |-> FALSE, s3_bucket |-> None, s3_key |-> None,
     redis_key |-> None, updated |-> None]

\* the outer except of publish_pricing_update: the envelope it builds
OuterExcept(w, ex) ==
    BuildResult(ERR, <<"failed - publish_pricing_update dict with ex", ex>>, None)

\* what the task reads off the work order w under the process toggles e
EnableS3Upload(w, e) == Get(w, "s3_enabled", e.ENABLED_S3_UPLOAD)
EnableRedisPublish(w, e) == Get(w, "redis_enabled", e.ENABLED_REDIS_PUBLISH)
S3BucketName(w) == Get(w, "s3_bucket", <<"pricing">>)
S3Key(w) == Get(w, "s3_key", None)
\* the cache key the cache branch writes to
RedisWriteKey(w) == Get(w, "redis_key", REDIS_KEY)

\* the position after the archive branch
AfterS3(w, e) == IF EnableRedisPublish(w, e) THEN "redis_address" ELSE "done"
\* the position after the work order is read
AfterParse(w, e) == IF EnableS3Upload(w, e) THEN "s3_client" ELSE AfterS3(w, e)

\* publish_pricing_update from its start to the first sink: the task record
\* it leaves when started on the work order w
ParseWorkOrder(w, e) ==
    LET ticker == Get(w, "ticker", TICKER)
        ticker_id == IntOf(Get(w, "ticker_id", TICKER_ID))
        rec == [ticker |-> ticker, ticker_id |-> ticker_id,
                s3_enabled |-> EnableS3Upload(w, e),
                redis_enabled |-> EnableRedisPublish(w, e),
                s3_bucket |-> S3BucketName(w), s3_key |-> S3Key(w),
                redis_key |-> Get(w, "redis_key", None),
                updated |-> Get(w, "updated", None)]
    IN  IF ticker_id = None
        THEN [pc |-> "done", work_dict |-> w, rec |-> SeedRec,
              res |-> OuterExcept(w, "int")]
        ELSE IF Falsy(ticker)
        THEN [pc |-> "done", work_dict |-> w, rec |-> SeedRec,
              res |-> BuildResult(ERR, <<"missing ticker">>, Opt(SeedRec))]
        ELSE IF AfterParse(w, e) = "done"
        THEN [pc |-> "done", work_dict |-> w, rec |-> rec,
              res |-> BuildResult(SUCCESS, None, Opt(rec))]
        ELSE [pc |-> AfterParse(w, e), work_dict |-> w, rec |-> rec,
              res |-> BuildResult(NOT_RUN, None, Opt(SeedRec))]

\* the task record when the task moves on to position next ("done": it returns
\* the SUCCESS envelope)
MoveOn(t, next) ==
    IF next = "done"
    THEN [t EXCEPT !.pc = "done", !.res = BuildResult(SUCCESS, None, Opt(t.rec))]
    ELSE [t EXCEPT !.pc = next]

\* an exception that no except clause turns into an envelope
EscapesUncaught(t, ex) == [t EXCEPT !.pc = "done"]

\* the task record when an exception reaches the outer except
Escapes(t, ex) == [t EXCEPT !.pc = "done", !.res = OuterExcept(t.work_dict, ex)]

\* a task not yet started on its work order
NewTask(w) ==
    [pc |-> "ready", work_dict |-> w, rec |-> SeedRec,
     res |-> BuildResult(NOT_RUN, None, Opt(SeedRec))]

\* ------------------------------------------- run_publish_pricing_update

\* consts.ev(name, default): the environment variable, or the default
Ev(e, name, default) == Get(e, name, default)

\* ev('CELERY_DISABLED', '1') == '1'
CeleryDisabled(e) == Ev(e, "CELERY_DISABLED", <<"1">>) = <<"1">>

\* the wrapper before it is called: response is the NOT_RUN envelope on rec {}
NoWrapper ==
    [pc |-> "idle", raised |-> FALSE,
     response |-> BuildResult(NOT_RUN, None, Opt(EmptyConfig))]

\* the response the wrapper builds from the dict the task body returned
ResponseOf(task_res) ==
    BuildResult(Get(task_res, "status", SUCCESS),
                Get(task_res, "err", None),
                Get(task_res, "rec", Opt(EmptyConfig)))

\* what AsyncResult.get(timeout, propagate) gives when called, as the wrapper
\* calls it, with a key and a default: never a field of the task's result but
\* the task's whole return value, written RESULT where a status or an err
\* text is expected
AsyncValue == "RESULT"
ResponseOfAsync(task_res) ==
    BuildResult(AsyncValue, <<AsyncValue>>, Opt(task_res))

\* ------------------------------------------------------- the inputs explored

\* the close price of the daily dataset of the node dated d
CloseOn(d) == IF d % 2 = 1 THEN 2 ELSE 3

\* a dataset node of ticker t dated d; kind says which keys it carries
Node(t, d, kind) ==
    LET daily == DataFrame(1, ("close" :> Opt(CloseOn(d))))
        full == [id |-> <<t, d>>, date |-> <<d>>, data |-> ("daily" :> daily)]
    IN  CASE kind = "ok" -> full
          [] kind = "nodaily" -> [full EXCEPT !.data = [k \in {} |-> None]]
          [] kind = "badclose" ->
                 [full EXCEPT !.data = ("daily" :> DataFrame(1, ("close" :> None)))]
          [] kind = "nodate" -> [k \in {"id", "data"} |-> full[k]]
          [] kind = "noid" -> [k \in {"date", "data"} |-> full[k]]

\* the node lists of one ticker: up to MaxNodes nodes, dated 1, 2, ..., all of
\* kind "ok" but at most one
KindLists(kinds) ==
    UNION {{[d \in 1..n |-> "ok"]} \cup
           {[d \in 1..n |-> IF d = i THEN k ELSE "ok"] : i \in 1..n, k \in kinds} :
           n \in 0..MaxNodes}

\* the key sets of the dataset maps explored (TSLA is traded by no engine)
KeySets == {{"SPY"}, {"AAPL", "TSLA"}, {"SPY", "AAPL"}}

\* multi-ticker dataset maps
DataMaps(kinds) ==
    {[t \in K |-> [d \in 1..Len(kl) |-> Node(t, d, kl[d])]] :
        K \in KeySets, kl \in KindLists(kinds)}

\* the dataset a constructor may find in the file it is told to load
FileDataset == ("SPY" :> <<Node("SPY", 1, "ok")>>)

\* constructor arguments
DefaultArgs ==
    [ticker |-> Opt("spy"), tickers |-> None, balance |-> 8, commission |-> 1,
     name |-> None, config_dict |-> EmptyConfig, use_key |-> None,
     now |-> <<"t0">>, output_dir |-> None,
     input_config |-> EmptyConfig, history_config |-> EmptyConfig,
     report_config |-> EmptyConfig,
     publish_input |-> TRUE, publish_history |-> TRUE, publish_report |-> TRUE,
     raise_on_err |-> FALSE, load_from_file |-> None,
     load_from_s3 |-> None, load_from_redis |-> None,
     publish_to_s3 |-> None, publish_to_redis |-> None, env |-> DefaultEnv]

NoFrame == [data |-> <<>>, passed |-> <<>>, data_for_tickers |-> <<>>,
            work |-> <<>>, k |-> 0, base |-> <<>>, skipped |-> 0, runs |-> 0]

\* ------------------------------------------------------------------ actions

\* a caller calls create_buy_order
CallCreateBuyOrder(ticker, close, dated, shares, fails) ==
    /\ pc = "idle"
    /\ ncalls < MaxCalls
    /\ LET r == CreateBuyOrder(algo, ticker, Row(close, dated), shares, fails)
       IN  /\ algo' = r.algo
           /\ last_call' = [op |-> "create_buy_order", ticker |-> ticker,
                            close |-> close, dated |-> dated, shares |-> shares,
                            fails |-> fails,
                            raised |-> r.raised, order |-> r.order]
    /\ ncalls' = ncalls + 1
    /\ UNCHANGED <<pc, frame, sinks, strategy>>
    /\ UNCHANGED taskvars

\* a caller calls create_sell_order
CallCreateSellOrder(ticker, close, dated, shares, fails) ==
    /\ pc = "idle"
    /\ ncalls < MaxCalls
    /\ LET r == CreateSellOrder(algo, ticker, Row(close, dated), shares, fails)
       IN  /\ algo' = r.algo
           /\ last_call' = [op |-> "create_sell_order", ticker |-> ticker,
                            close |-> close, dated |-> dated, shares |-> shares,
                            fails |-> fails,
                            raised |-> r.raised, order |-> r.order]
    /\ ncalls' = ncalls + 1
    /\ UNCHANGED <<pc, frame, sinks, strategy>>
    /\ UNCHANGED taskvars

\* utc_now_str(fmt='%Y-%m-%d-%H-%M-%S.%f') when the clock reads tick: the
\* text of the time, one text per clock value
UtcNowStr(tick) == <<ToString(tick)>>

\* a caller constructs one more engine in the process: BaseAlgo(**args) with
\* the clock either where the construction before read it or one tick later;
\* last_call keeps the arguments and, in before, the engine constructed
\* before with its arguments and its clock value
CallInit(args, ticks) ==
    /\ pc = "idle"
    /\ last_call.op = "__init__"
    /\ ncalls < MaxCalls
    /\ LET tick == last_call.tick + ticks
           r == NewAlgo([args EXCEPT !.now = UtcNowStr(tick)],
                        [exists |-> FALSE, content |-> None])
       IN  /\ algo' = r.algo
           /\ last_call' = [op |-> "__init__", args |-> args, tick |-> tick,
                            raised |-> r.raised,
                            before |-> Opt([algo |-> algo,
                                            args |-> last_call.args,
                                            tick |-> last_call.tick])]
    /\ ncalls' = ncalls + 1
    /\ UNCHANGED <<pc, frame, sinks, strategy>>
    /\ UNCHANGED taskvars

\* a caller calls get_supported_tickers_in_data(data)
CallGetSupportedTickersInData(data) ==
    /\ pc = "idle"
    /\ last_call' = [op |-> "get_supported_tickers_in_data", data |-> data,
                     ret |-> GetSupportedTickersInData(algo.tickers, data)]
    /\ UNCHANGED <<algo, pc, frame, ncalls, sinks, strategy>>
    /\ UNCHANGED taskvars

\* the constructor of the engine returned: the engine exists
Constructed == ~(last_call.op = "__init__" /\ last_call.raised)

\* a caller calls load_from_external_source(path_to_file, s3_key, redis_key)
\* while the file system answers as file says
CallLoadFromExternalSource(sel, file) ==
    /\ pc = "idle"
    /\ Constructed
    /\ ncalls < MaxCalls
    /\ LET r == LoadFromExternalSource(algo, sel, file)
       IN  /\ algo' = r.algo
           /\ last_call' = [op |-> "load_from_external_source",
                            raised |-> r.raised, sel |-> sel, file |-> file]
    /\ ncalls' = ncalls + 1
    /\ UNCHANGED <<pc, frame, sinks, strategy>>
    /\ UNCHANGED taskvars

\* a caller calls load_from_config(config_dict)
CallLoadFromConfig(config_dict) ==
    /\ pc = "idle"
    /\ Constructed
    /\ ncalls < MaxCalls
    /\ algo' = LoadFromConfig(algo, config_dict)
    /\ last_call' = [op |-> "load_from_config", raised |-> FALSE,
                     config_dict |-> config_dict]
    /\ ncalls' = ncalls + 1
    /\ UNCHANGED <<pc, frame, sinks, strategy>>
    /\ UNCHANGED taskvars

\* a caller calls load_from_dataset(node)
CallLoadFromDataset(node) ==
    /\ pc = "idle"
    /\ Constructed
    /\ ncalls < MaxCalls
    /\ LET r == LoadFromDataset(algo, node)
       IN  /\ algo' = r.algo
           /\ last_call' = [op |-> "load_from_dataset", raised |-> r.raised,
                            node |-> node]
    /\ ncalls' = ncalls + 1
    /\ UNCHANGED <<pc, frame, sinks, strategy>>
    /\ UNCHANGED taskvars

\* handle_data(data) is called
HandleDataStart(data) ==
    /\ pc = "idle"
    /\ frame.runs < MaxRuns
    /\ LET b == HandleDataBegin(algo, data)
       IN  /\ frame' = [data |-> b.data, passed |-> data,
                        data_for_tickers |-> b.data_for_tickers,
                        work |-> b.work, k |-> 1,
                        base |-> algo.order_history, skipped |-> 0,
                        runs |-> frame.runs + 1]
           /\ IF b.work = <<>>
              THEN /\ algo' = HandleDataEnd(b.algo, b.data)
                   /\ pc' = "idle"
                   /\ last_call' = [op |-> "handle_data", raised |-> FALSE]
              ELSE /\ algo' = b.algo
                   /\ pc' = "load"
                   /\ last_call' = [op |-> "handle_data_start", raised |-> FALSE]
    /\ UNCHANGED <<ncalls, sinks, strategy>>
    /\ UNCHANGED taskvars

\* handle_data snapshots the previous balance and shares and loads the node
HandleDataLoad ==
    /\ pc = "load"
    /\ LET w == frame.work[frame.k]
           l == HandleNodeLoad(algo, w.ticker, w.node)
       IN  /\ algo' = l.algo
           /\ pc' = IF l.raised THEN "idle" ELSE "process"
           /\ last_call' = IF l.raised
                           THEN [op |-> "handle_data", raised |-> TRUE]
                           ELSE [op |-> "load_from_dataset", raised |-> FALSE]
    /\ UNCHANGED <<frame, ncalls, sinks, strategy>>
    /\ UNCHANGED taskvars

\* handle_data calls process: the base class's
HandleDataProcess(fails) ==
    /\ pc = "process"
    /\ strategy = "base"
    /\ LET r == Process(algo, frame.work[frame.k].ticker, fails)
       IN  /\ algo' = r.algo
           /\ pc' = IF r.raised THEN "idle" ELSE "history"
           /\ last_call' = IF r.raised
                           THEN [op |-> "handle_data", raised |-> TRUE]
                           ELSE [op |-> "process", raised |-> FALSE]
    /\ UNCHANGED <<frame, ncalls, sinks, strategy>>
    /\ UNCHANGED taskvars

\* handle_data calls process: a derived class's, which sets its trigger flags
StrategyProcess(should_buy, should_sell) ==
    /\ pc = "process"
    /\ strategy = "derived"
    /\ algo' = [algo EXCEPT !.should_buy = should_buy, !.should_sell = should_sell]
    /\ pc' = "history"
    /\ last_call' = [op |-> "process", raised |-> FALSE]
    /\ UNCHANGED <<frame, ncalls, sinks, strategy>>
    /\ UNCHANGED taskvars

\* handle_data records the node's trade history and moves on
HandleDataHistory(valid) ==
    /\ pc = "history"
    /\ valid \/ frame.skipped < MaxSkips
    /\ LET a1 == HandleNodeHistory(algo, valid)
           last == frame.k = Len(frame.work)
       IN  /\ algo' = IF last THEN HandleDataEnd(a1, frame.data) ELSE a1
           /\ pc' = IF last THEN "idle" ELSE "load"
           /\ frame' = [frame EXCEPT !.k = IF last THEN @ ELSE @ + 1,
                                     !.skipped = IF valid THEN @ ELSE @ + 1]
           /\ last_call' = IF last THEN [op |-> "handle_data", raised |-> FALSE]
                           ELSE [op |-> "history", raised |-> FALSE]
    /\ UNCHANGED <<ncalls, sinks, strategy>>
    /\ UNCHANGED taskvars

\* a caller calls reset_for_next_run between two runs of handle_data
CallResetForNextRun ==
    /\ pc = "idle"
    /\ ncalls < MaxCalls
    /\ algo' = ResetForNextRun(algo)
    /\ frame' = [frame EXCEPT !.runs = 0]
    /\ last_call' = [op |-> "reset_for_next_run", raised |-> FALSE]
    /\ ncalls' = ncalls + 1
    /\ UNCHANGED <<pc, sinks, strategy>>
    /\ UNCHANGED taskvars

\* the state a finished publish call r leaves: what it handed to the Multi-Sink
\* Publish Utility is added to sinks
Published(op, r, kwargs) ==
    /\ algo' = r.algo
    /\ sinks' = sinks \o r.published
    /\ last_call' = [op |-> op, kwargs |-> kwargs, raised |-> r.raised,
                     status |-> r.status, output_file |-> r.output_file]
    /\ ncalls' = ncalls + 1
    /\ UNCHANGED <<pc, frame, strategy>>
    /\ UNCHANGED taskvars

\* a caller calls publish_input_datasets(**kwargs); publish_status is what the
\* Multi-Sink Publish Utility answers when it is reached
CallPublishInputDatasets(kwargs, publish_status) ==
    /\ pc = "idle"
    /\ ncalls < MaxCalls
    /\ Published("publish_input_datasets",
                 PublishInputDatasets(algo, kwargs, publish_status), kwargs)

\* a caller calls publish_trade_history(**kwargs)
CallPublishTradeHistory(kwargs, publish_status) ==
    /\ pc = "idle"
    /\ ncalls < MaxCalls
    /\ Published("publish_trade_history",
                 PublishTradeHistory(algo, kwargs, publish_status), kwargs)

\* a caller calls publish_report_datasets(**kwargs)
CallPublishReportDatasets(kwargs, publish_status) ==
    /\ pc = "idle"
    /\ ncalls < MaxCalls
    /\ Published("publish_report_datasets",
                 PublishReportDatasets(algo, kwargs, publish_status), kwargs)

\* ------------------------------------------------- actions of the worker task

\* the names of the invocations of publish_pricing_update
Invocations == {"a", "b"}

\* one record of the contacts log: invocation i called op on the sink, and the
\* call went through (ok) or raised
Contact(i, sink, op, ok) == [by |-> i, sink |-> sink, op |-> op, ok |-> ok]

\* json.dumps(data), the body of the archive object
Dumps(data) == <<"json">> \o data

\* invocation i of publish_pricing_update reads its work order
TaskStart(i) ==
    /\ i \in DOMAIN tasks
    /\ tasks[i].pc = "ready"
    /\ tasks' = [tasks EXCEPT ![i] = ParseWorkOrder(tasks[i].work_dict, env)]
    /\ UNCHANGED <<archive, cache, contacts, env, wrapper>>
    /\ UNCHANGED enginevars

\* boto3.resource('s3', ...): building the archive client (it raises when ~ok)
S3Client(i, ok) ==
    /\ i \in DOMAIN tasks
    /\ tasks[i].pc = "s3_client"
    /\ tasks' = [tasks EXCEPT ![i] = IF ok THEN MoveOn(@, "s3_check")
                                          ELSE Escapes(@, "s3")]
    /\ UNCHANGED <<archive, cache, contacts, env, wrapper>>
    /\ UNCHANGED enginevars

\* s3.Bucket(name) not in s3.buckets.all(): a failure is logged and swallowed
S3Check(i, ok) ==
    /\ i \in DOMAIN tasks
    /\ tasks[i].pc = "s3_check"
    /\ contacts' = Append(contacts, Contact(i, "archive", "buckets.all", ok))
    /\ tasks' = [tasks EXCEPT ![i] =
                    MoveOn(@, IF ok /\ S3BucketName(@.work_dict) \notin DOMAIN archive
                              THEN "s3_create" ELSE "s3_put")]
    /\ UNCHANGED <<archive, cache, env, wrapper>>
    /\ UNCHANGED enginevars

\* s3.create_bucket(Bucket=name): a failure (also: the bucket exists by now)
\* is logged and swallowed
S3Create(i, ok) ==
    /\ i \in DOMAIN tasks
    /\ tasks[i].pc = "s3_create"
    /\ LET b == S3BucketName(tasks[i].work_dict)
           created == ok /\ b \notin DOMAIN archive
       IN  /\ contacts' = Append(contacts,
                                 Contact(i, "archive", "create_bucket", created))
           /\ archive' = IF created
                          THEN (b :> [k \in {} |-> None]) @@ archive
                          ELSE archive
    /\ tasks' = [tasks EXCEPT ![i] = MoveOn(@, "s3_put")]
    /\ UNCHANGED <<cache, env, wrapper>>
    /\ UNCHANGED enginevars

\* put_object without its try: a failed object write reaches the outer except
S3PutFailureEscapes(i, ok) ==
    /\ i \in DOMAIN tasks
    /\ tasks[i].pc = "s3_put"
    /\ LET w == tasks[i].work_dict
           b == S3BucketName(w)
           written == ok /\ b \in DOMAIN archive /\ S3Key(w) # None
       IN  /\ contacts' = Append(contacts,
                                 Contact(i, "archive", "put_object", written))
           /\ archive' = IF written
                         THEN [archive EXCEPT ![b] =
                                  (S3Key(w) :> Dumps(Get(w, "data", None))) @@ @]
                         ELSE archive
           /\ tasks' = [tasks EXCEPT ![i] = IF written THEN MoveOn(@, AfterS3(w, env))
                                                 ELSE Escapes(@, "put_object")]
    /\ UNCHANGED <<cache, env, wrapper>>
    /\ UNCHANGED enginevars

\* s3.Bucket(name).put_object(Key=s3_key, Body=json.dumps(data)): a failure
\* (also: no such bucket, no key) is logged and swallowed
S3Put(i, ok) ==
    /\ i \in DOMAIN tasks
    /\ tasks[i].pc = "s3_put"
    /\ LET w == tasks[i].work_dict
           b == S3BucketName(w)
           written == ok /\ b \in DOMAIN archive /\ S3Key(w) # None
       IN  /\ contacts' = Append(contacts,
                                 Contact(i, "archive", "put_object", written))
           /\ archive' = IF written
                         THEN [archive EXCEPT ![b] =
                                  (S3Key(w) :> Dumps(Get(w, "data", None))) @@ @]
                         ELSE archive
           /\ tasks' = [tasks EXCEPT ![i] = MoveOn(@, AfterS3(w, env))]
    /\ UNCHANGED <<cache, env, wrapper>>
    /\ UNCHANGED enginevars

\* redis_address.split(':')[0] and [1], outside the inner try
RedisAddress(i) ==
    /\ i \in DOMAIN tasks
    /\ tasks[i].pc = "redis_address"
    /\ LET parts == Split(Get(tasks[i].work_dict, "redis_address", REDIS_ADDRESS))
       IN  tasks' = [tasks EXCEPT ![i] = IF Len(parts) < 2 THEN Escapes(@, "index")
                                             ELSE MoveOn(@, "redis_set")]
    /\ UNCHANGED <<archive, cache, contacts, env, wrapper>>
    /\ UNCHANGED enginevars

\* rc.set called with nx=True: the key is written only when it is not there yet
RedisSetIfAbsent(i, ok) ==
    /\ i \in DOMAIN tasks
    /\ tasks[i].pc = "redis_set"
    /\ LET w == tasks[i].work_dict
           written == ok /\ RedisWriteKey(w) # None
       IN  /\ contacts' = Append(contacts, Contact(i, "cache", "set", written))
           /\ cache' = IF written /\ RedisWriteKey(w) \notin DOMAIN cache
                       THEN (RedisWriteKey(w) :> Get(w, "data", None)) @@ cache
                       ELSE cache
    /\ tasks' = [tasks EXCEPT ![i] = MoveOn(@, "done")]
    /\ UNCHANGED <<archive, env, wrapper>>
    /\ UNCHANGED enginevars

\* redis.Redis(...) and rc.set(name=redis_key, value=data, ...): a failure is
\* logged and swallowed
RedisSet(i, ok) ==
    /\ i \in DOMAIN tasks
    /\ tasks[i].pc = "redis_set"
    /\ LET w == tasks[i].work_dict
           written == ok /\ RedisWriteKey(w) # None
       IN  /\ contacts' = Append(contacts, Contact(i, "cache", "set", written))
           /\ cache' = IF written
                       THEN (RedisWriteKey(w) :> Get(w, "data", None)) @@ cache
                       ELSE cache
    /\ tasks' = [tasks EXCEPT ![i] = MoveOn(@, "done")]
    /\ UNCHANGED <<archive, env, wrapper>>
    /\ UNCHANGED enginevars

\* ----------------------------------- actions of run_publish_pricing_update

\* run_publish_pricing_update(w) up to the dispatch: the task body is called
\* in-process, or queued with delay()
RunPublishPricingUpdate(w) ==
    /\ wrapper.pc = "idle"
    /\ "a" \notin DOMAIN tasks
    /\ tasks' = ("a" :> NewTask(w)) @@ tasks
    /\ wrapper' = [wrapper EXCEPT !.pc = IF CeleryDisabled(env) THEN "inline"
                                                                 ELSE "delay"]
    /\ UNCHANGED <<archive, cache, contacts, env>>
    /\ UNCHANGED enginevars

\* the in-process call has returned: the wrapper builds its response from it
RunReturnInline ==
    /\ wrapper.pc = "inline"
    /\ tasks["a"].pc = "done"
    /\ wrapper' = [wrapper EXCEPT !.pc = "returned",
                                   !.response = ResponseOf(tasks["a"].res)]
    /\ UNCHANGED <<tasks, archive, cache, contacts, env>>
    /\ UNCHANGED enginevars

\* the queued call: task_res is an AsyncResult, and task_res.get('status',
\* SUCCESS) is AsyncResult.get(timeout='status', propagate=SUCCESS): it raises
\* (no broker or backend, the text taken as a timeout), or it hands back the
\* task's whole return value once the task has finished
RunReturnDelay(raises) ==
    /\ wrapper.pc = "delay"
    /\ IF raises
       THEN wrapper' = [wrapper EXCEPT !.pc = "returned", !.raised = TRUE]
       ELSE /\ tasks["a"].pc = "done"
            /\ wrapper' = [wrapper EXCEPT !.pc = "returned",
                                   !.response = ResponseOfAsync(tasks["a"].res)]
    /\ UNCHANGED <<tasks, archive, cache, contacts, env>>
    /\ UNCHANGED enginevars

\* --------------------------------------------------------- specifications

\* the rest of the state when an engine has just been constructed
Fresh ==
    /\ pc = "idle"
    /\ frame = NoFrame
    /\ last_call = [op |-> "init", raised |-> FALSE]
    /\ ncalls = 0
    /\ sinks = <<>>

\* no worker task has been dispatched and the sinks hold nothing
NoTasks ==
    /\ tasks = [i \in {} |-> NewTask(EmptyConfig)]
    /\ archive = [b \in {} |-> None]
    /\ cache = [k \in {} |-> None]
    /\ contacts = <<>>
    /\ env = DefaultEnv
    /\ wrapper = NoWrapper

\* Spec: an engine and a caller placing orders on it
Init ==
    /\ \E b \in Balances, c \in Commissions, roe \in BOOLEAN :
          algo = NewAlgo([DefaultArgs EXCEPT !.balance = b, !.commission = c,
                                             !.raise_on_err = roe],
                         [exists |-> FALSE, content |-> None]).algo
    /\ strategy = "base"
    /\ Fresh
    /\ NoTasks

Next ==
    \/ \E t \in Symbols, c \in Closes, d \in BOOLEAN, sh \in ShareArgs,
          f \in BOOLEAN : CallCreateBuyOrder(t, c, d, sh, f)
    \/ \E t \in Symbols, c \in Closes, d \in BOOLEAN, sh \in ShareArgs,
          f \in BOOLEAN : CallCreateSellOrder(t, c, d, sh, f)

Spec == Init /\ [][Next]_vars

\* SpecReplay: an engine replaying dataset maps through handle_data
ReplayKinds == {"nodate", "noid"}

\* a trade history entry of an earlier run, given back through config_dict
PriorEntry ==
    [ticker |-> Opt("SPY"), ds_id |-> <<"SPY", 0>>, date |-> <<0>>,
     num_owned |-> None, close |-> 2, balance |-> 8, prev_balance |-> Opt(8),
     prev_num_owned |-> None]

\* the open positions of an earlier run, given back through config_dict
PriorPositions ==
    ("SPY" :> [shares |-> 2,
               buys |-> <<[ticker |-> "SPY", status |-> TRADE_FILLED, shares |-> 2,
                           price |-> 3, balance |-> 8]>>,
               sells |-> <<>>])

\* the engines replayed: ticker list, raise_on_err, file to load, config_dict
\* and the class of the engine
ReplayEngines ==
    {<<<<"SPY">>, FALSE, None, EmptyConfig, "base">>,
     <<<<"SPY">>, FALSE, None, EmptyConfig, "derived">>,
     <<<<"SPY", "AAPL">>, FALSE, None, [order_history |-> <<PriorEntry>>], "base">>,
     <<<<"AAPL", "SPY">>, TRUE, None, EmptyConfig, "base">>,
     <<<<"SPY", "SPY">>, FALSE, None, EmptyConfig, "base">>,
     <<<<"SPY", "AAPL">>, FALSE, <<"ds.json">>, EmptyConfig, "base">>,
     <<<<"SPY">>, TRUE, None, [positions |-> PriorPositions], "base">>}

InitReplay ==
    /\ \E e \in ReplayEngines :
          /\ algo = NewAlgo([DefaultArgs EXCEPT
                                !.ticker = None, !.tickers = e[1],
                                !.raise_on_err = e[2], !.load_from_file = e[3],
                                !.config_dict = e[4]],
                            [exists |-> TRUE, content |-> Opt(FileDataset)]).algo
          /\ strategy = e[5]
    /\ Fresh
    /\ NoTasks

NextReplay ==
    \/ \E d \in DataMaps(ReplayKinds) : HandleDataStart(d)
    \/ HandleDataLoad
    \/ \E f \in BOOLEAN : HandleDataProcess(f)
    \/ \E sb, ss \in BOOLEAN : StrategyProcess(sb, ss)
    \/ \E v \in BOOLEAN : HandleDataHistory(v)

SpecReplay == InitReplay /\ [][NextReplay]_vars

\* SpecTickers: engines asked which of their tickers a dataset map supports
InitTickers ==
    /\ \E tl \in TickerLists, roe \in BOOLEAN :
          algo = NewAlgo([DefaultArgs EXCEPT !.ticker = None, !.tickers = tl,
                                             !.raise_on_err = roe],
                         [exists |-> FALSE, content |-> None]).algo
    /\ strategy = "base"
    /\ Fresh
    /\ NoTasks

NextTickers ==
    \E d \in DataMaps(ReplayKinds) : CallGetSupportedTickersInData(d)

SpecTickers == InitTickers /\ [][NextTickers]_vars

\* SpecPublish: engines asked to publish their three surfaces
\* the output_file entry of a surface's configuration map: none, None, a file
PublishConfigs ==
    {EmptyConfig, [output_file |-> None], [output_file |-> <<"conf.json">>]}

\* the keyword arguments of a publish call
PublishKwargs ==
    {EmptyConfig, [output_file |-> None], [output_file |-> EmptyStr],
     [output_file |-> <<"call.json">>]}

InitPublish ==
    /\ \E pi, ph, pr, roe \in BOOLEAN, conf \in PublishConfigs,
          cd \in {EmptyConfig, [last_handle_data |-> Opt(FileDataset)],
                  [order_history |-> <<PriorEntry>>]} :
          algo = NewAlgo([DefaultArgs EXCEPT
                             !.publish_input = pi, !.publish_history = ph,
                             !.publish_report = pr, !.raise_on_err = roe,
                             !.input_config = conf, !.history_config = conf,
                             !.report_config = conf, !.config_dict = cd],
                         [exists |-> FALSE, content |-> None]).algo
    /\ strategy = "base"
    /\ Fresh
    /\ NoTasks

NextPublish ==
    \/ \E kw \in PublishKwargs, st \in {SUCCESS, ERR} : CallPublishInputDatasets(kw, st)
    \/ \E kw \in PublishKwargs, st \in {SUCCESS, ERR} : CallPublishTradeHistory(kw, st)
    \/ \E kw \in PublishKwargs, st \in {SUCCESS, ERR} : CallPublishReportDatasets(kw, st)

SpecPublish == InitPublish /\ [][NextPublish]_vars

\* SpecTask: one invocation of publish_pricing_update on a work order
\* the maps with no key, or with the key k set to one of vals
Field(k, vals) == {EmptyConfig} \cup {(k :> v) : v \in vals}

WorkOrders ==
    {([s3_key |-> <<"key">>, data |-> <<"payload">>]) @@ a @@ b @@ c @@ d @@ e @@ f :
        a \in Field("ticker", {None, EmptyStr, <<"AAPL">>}),
        b \in Field("ticker_id", {<<"7">>, <<"x">>}),
        c \in Field("s3_enabled", BOOLEAN),
        d \in Field("redis_enabled", BOOLEAN),
        e \in Field("redis_address", {<<"redis">>}),
        f \in Field("redis_key", {<<"key">>})}

InitTask ==
    /\ algo = NewAlgo(DefaultArgs, [exists |-> FALSE, content |-> None]).algo
    /\ strategy = "base"
    /\ Fresh
    /\ \E w \in WorkOrders : tasks = [i \in {"a"} |-> NewTask(w)]
    /\ archive \in {[b \in {} |-> None], [b \in {<<"pricing">>} |-> [k \in {} |-> None]]}
    /\ cache = [k \in {} |-> None]
    /\ contacts = <<>>
    /\ env \in [ENABLED_S3_UPLOAD : BOOLEAN, ENABLED_REDIS_PUBLISH : BOOLEAN]
    /\ wrapper = NoWrapper

NextTask ==
    \/ \E i \in Invocations : TaskStart(i)
    \/ \E i \in Invocations, ok \in BOOLEAN : S3Client(i, ok)
    \/ \E i \in Invocations, ok \in BOOLEAN : S3Check(i, ok)
    \/ \E i \in Invocations, ok \in BOOLEAN : S3Create(i, ok)
    \/ \E i \in Invocations, ok \in BOOLEAN : S3Put(i, ok)
    \/ \E i \in Invocations : RedisAddress(i)
    \/ \E i \in Invocations, ok \in BOOLEAN : RedisSet(i, ok)

SpecTask == InitTask /\ [][NextTask]_vars

\* SpecTaskFair: the same invocation, never stopped halfway: a step of the
\* task body that can run does run (each call of the body returns or raises)
SpecTaskFair == InitTask /\ [][NextTask]_vars /\ WF_vars(NextTask)

\* SpecLoad: an engine constructed with any of the three selectors set, then
\* callers of load_from_external_source and load_from_config
Files ==
    {[exists |-> FALSE, content |-> None],
     [exists |-> TRUE, content |-> None],
     [exists |-> TRUE, content |-> Opt(FileDataset)]}

PathArgs == {None, <<"ds.json">>}
S3KeyArgs == {None, <<"s3-key">>}
RedisKeyArgs == {None, <<"redis-key">>}

Selectors == [path_to_file : PathArgs, s3_key : S3KeyArgs, redis_key : RedisKeyArgs]

\* configuration maps: none, members the engine has, and a key it has not
ConfigMaps ==
    {EmptyConfig,
     [balance |-> 3],
     [balance |-> 5, order_history |-> <<PriorEntry>>],
     [balance |-> 3, not_a_member |-> 1]}

InitLoad ==
    /\ \E f \in PathArgs, s \in S3KeyArgs, r \in RedisKeyArgs,
          roe \in BOOLEAN, file \in Files :
          LET new == NewAlgo([DefaultArgs EXCEPT !.load_from_file = f,
                                                 !.load_from_s3 = s,
                                                 !.load_from_redis = r,
                                                 !.raise_on_err = roe], file)
          IN  /\ algo = new.algo
              /\ last_call = [op |-> "__init__", raised |-> new.raised,
                              sel |-> NoSelectors, file |-> file]
    /\ strategy = "base"
    /\ pc = "idle"
    /\ frame = NoFrame
    /\ ncalls = 0
    /\ sinks = <<>>
    /\ NoTasks

NextLoad ==
    \/ \E sel \in Selectors, file \in Files : CallLoadFromExternalSource(sel, file)
    \/ \E c \in ConfigMaps : CallLoadFromConfig(c)

SpecLoad == InitLoad /\ [][NextLoad]_vars

\* SpecDataset: callers of load_from_dataset; the data maps of the nodes hold
\* no key, a daily table (with a close of 0, 2 or 3, or with a close nothing
\* can read), a daily or a pricing value that is a dict, another table, or
\* are missing
DataArgs ==
    {[k \in {} |-> None],
     ("daily" :> DataFrame(1, ("close" :> Opt(0)))),
     ("daily" :> DataFrame(1, ("close" :> Opt(2)))),
     ("daily" :> DataFrame(1, ("close" :> Opt(3)))),
     ("daily" :> DataFrame(1, ("close" :> None))),
     ("daily" :> Dict(<<"close">>)),
     ("pricing" :> Dict(<<"ask">>)),
     ("pricing" :> Dict(<<"ask">>)) @@ ("daily" :> DataFrame(1, ("close" :> Opt(3)))),
     ("minute" :> DataFrame(1, ("close" :> Opt(2))))}

DatasetNodes ==
    {[id |-> <<"SPY", 1>>, date |-> <<1>>, data |-> d] : d \in DataArgs}
    \cup {[id |-> <<"SPY", 2>>, date |-> <<2>>],
          [id |-> <<"SPY", 3>>, data |-> [k \in {} |-> None]],
          [date |-> <<4>>, data |-> [k \in {} |-> None]]}

InitDataset ==
    /\ \E b \in Balances, roe \in BOOLEAN :
          algo = NewAlgo([DefaultArgs EXCEPT !.balance = b, !.raise_on_err = roe],
                         [exists |-> FALSE, content |-> None]).algo
    /\ strategy = "base"
    /\ Fresh
    /\ NoTasks

NextDataset == \E node \in DatasetNodes : CallLoadFromDataset(node)

SpecDataset == InitDataset /\ [][NextDataset]_vars

\* SpecPrices: engines replaying maps in which the close of a node's daily
\* table cannot be read, and callers loading such nodes themselves
PriceKinds == {"badclose"}

\* the maps replayed: the nodes of one ticker, at most one of them unreadable
PriceMaps ==
    {("SPY" :> [d \in 1..Len(kl) |-> Node("SPY", d, kl[d])]) :
        kl \in KindLists(PriceKinds)}

InitPrices ==
    /\ \E roe \in BOOLEAN :
          algo = NewAlgo([DefaultArgs EXCEPT
                             !.ticker = None, !.tickers = <<"SPY">>,
                             !.raise_on_err = roe],
                         [exists |-> FALSE, content |-> None]).algo
    /\ strategy = "base"
    /\ Fresh
    /\ NoTasks

NextPrices ==
    \/ \E d \in PriceMaps : HandleDataStart(d)
    \/ HandleDataLoad
    \/ \E f \in BOOLEAN : HandleDataProcess(f)
    \/ \E v \in BOOLEAN : HandleDataHistory(v)
    \/ \E k \in PriceKinds : CallLoadFromDataset(Node("SPY", 1, k))

SpecPrices == InitPrices /\ [][NextPrices]_vars

\* SpecConstruct: a process constructing engines one after the other
\* the output_dir arguments: none, '' and a directory of the caller
OutputDirs == {None, EmptyStr, <<"/tmp/out">>}
\* the use_key arguments
UseKeys == {None, <<"K">>}
\* the name arguments
Names == {None, <<"my", " ", "algo">>}
\* the configuration map given for each of the three surfaces
OutputConfigs == {EmptyConfig, [output_file |-> <<"conf.json">>]}

ConstructArgs ==
    {[DefaultArgs EXCEPT !.output_dir = d, !.use_key = k, !.name = n,
                         !.input_config = c, !.history_config = c,
                         !.report_config = c] :
        d \in OutputDirs, k \in UseKeys, n \in Names, c \in OutputConfigs}

InitConstruct ==
    /\ \E args \in ConstructArgs :
          /\ algo = NewAlgo([args EXCEPT !.now = UtcNowStr(0)],
                            [exists |-> FALSE, content |-> None]).algo
          /\ last_call = [op |-> "__init__", args |-> args, tick |-> 0,
                          raised |-> FALSE, before |-> None]
    /\ strategy = "base"
    /\ pc = "idle"
    /\ frame = NoFrame
    /\ ncalls = 0
    /\ sinks = <<>>
    /\ NoTasks

NextConstruct == \E args \in ConstructArgs, ticks \in {0, 1} : CallInit(args, ticks)

SpecConstruct == InitConstruct /\ [][NextConstruct]_vars

\* SpecReuse: engines holding shares from an earlier run that replay a map, are
\* reset, replay again and are asked to publish their input datasets
\* the maps replayed: one to MaxNodes nodes of SPY
ReuseMaps ==
    {("SPY" :> [d \in 1..n |-> Node("SPY", d, "ok")]) : n \in 1..MaxNodes}

\* the constructor arguments of the engine with the members a has kept
ReuseArgs(a) ==
    [DefaultArgs EXCEPT !.ticker = None, !.tickers = a.tickers,
                        !.raise_on_err = a.raise_on_err,
                        !.config_dict = [positions |-> PriorPositions]]

InitReuse ==
    /\ \E roe \in BOOLEAN, tl \in {<<"SPY">>, <<"SPY", "AAPL">>} :
          algo = NewAlgo(ReuseArgs([tickers |-> tl, raise_on_err |-> roe]),
                         [exists |-> FALSE, content |-> None]).algo
    /\ strategy = "base"
    /\ Fresh
    /\ NoTasks

NextReuse ==
    \/ \E d \in ReuseMaps : HandleDataStart(d)
    \/ HandleDataLoad
    \/ HandleDataProcess(FALSE)
    \/ HandleDataHistory(TRUE)
    \/ CallResetForNextRun
    \/ \E st \in {SUCCESS, ERR} : CallPublishInputDatasets(EmptyConfig, st)

SpecReuse == InitReuse /\ [][NextReuse]_vars

\* SpecHoldings: engines of two tickers, with or without shares of one of them
\* from an earlier run, replaying maps that hold both tickers
HoldingMaps ==
    {[t \in {"SPY", "AAPL"} |-> [d \in 1..n |-> Node(t, d, "ok")]] :
        n \in 1..MaxNodes}

InitHoldings ==
    /\ \E roe \in BOOLEAN, tl \in {<<"SPY", "AAPL">>, <<"AAPL", "SPY">>},
          cd \in {EmptyConfig, [positions |-> PriorPositions]} :
          algo = NewAlgo([DefaultArgs EXCEPT
                             !.ticker = None, !.tickers = tl,
                             !.raise_on_err = roe, !.config_dict = cd],
                         [exists |-> FALSE, content |-> None]).algo
    /\ strategy = "base"
    /\ Fresh
    /\ NoTasks

NextHoldings ==
    \/ \E d \in HoldingMaps : HandleDataStart(d)
    \/ HandleDataLoad
    \/ \E f \in BOOLEAN : HandleDataProcess(f)
    \/ \E v \in BOOLEAN : HandleDataHistory(v)

SpecHoldings == InitHoldings /\ [][NextHoldings]_vars

\* SpecOverride: engines with configured surfaces asked to publish with
\* keyword arguments that override the configuration
\* the maps of a surface: none, one that names and tunes the surface, one with
\* no output file and the cache switched on
OverrideConfigs ==
    {EmptyConfig,
     [label |-> <<"L">>, compress |-> FALSE, verbose |-> TRUE],
     [output_file |-> None, redis_enabled |-> TRUE]}

\* the keyword arguments of a publish call that override one field or two
OverrideKwargs ==
    {EmptyConfig, [label |-> <<"K">>], [compress |-> FALSE],
     [output_file |-> None, s3_enabled |-> TRUE],
     [output_file |-> <<"call.json">>]}

InitOverride ==
    /\ \E pi, roe \in BOOLEAN, conf \in OverrideConfigs :
          algo = NewAlgo([DefaultArgs EXCEPT
                             !.publish_input = pi, !.raise_on_err = roe,
                             !.input_config = conf, !.history_config = conf,
                             !.report_config = conf,
                             !.config_dict = [last_handle_data |-> Opt(FileDataset)]],
                         [exists |-> FALSE, content |-> None]).algo
    /\ strategy = "base"
    /\ Fresh
    /\ NoTasks

NextOverride ==
    \/ \E kw \in OverrideKwargs, st \in {SUCCESS, ERR} : CallPublishInputDatasets(kw, st)
    \/ \E kw \in OverrideKwargs, st \in {SUCCESS, ERR} : CallPublishTradeHistory(kw, st)
    \/ \E kw \in OverrideKwargs, st \in {SUCCESS, ERR} : CallPublishReportDatasets(kw, st)

SpecOverride == InitOverride /\ [][NextOverride]_vars

\* SpecConfigure: a process, its toggles set one way or the other, constructing
\* engines with publish flags and publish-configuration maps
\* the maps a caller gives for a surface: none, a label only, and one with
\* false and empty values
SurfaceConfigs ==
    {EmptyConfig,
     [label |-> <<"L">>],
     [redis_address |-> EmptyStr, redis_enabled |-> FALSE, s3_enabled |-> FALSE,
      compress |-> FALSE, verbose |-> TRUE]}
\* the publish_to_s3 and publish_to_redis arguments: None, False, True
FlagArgs == {None, Opt(FALSE), Opt(TRUE)}
\* the ways the process-wide toggles can be set
Toggles == [ENABLED_S3_UPLOAD : BOOLEAN, ENABLED_REDIS_PUBLISH : BOOLEAN]

ConfigureArgs ==
    {[DefaultArgs EXCEPT !.input_config = c, !.history_config = c,
                         !.report_config = c, !.publish_to_s3 = s,
                         !.publish_to_redis = r, !.env = e] :
        c \in SurfaceConfigs, s \in FlagArgs, r \in FlagArgs, e \in Toggles}

InitConfigure ==
    /\ \E args \in ConfigureArgs :
          /\ algo = NewAlgo([args EXCEPT !.now = UtcNowStr(0)],
                            [exists |-> FALSE, content |-> None]).algo
          /\ last_call = [op |-> "__init__", args |-> args, tick |-> 0,
                          raised |-> FALSE, before |-> None]
          /\ env = args.env
    /\ strategy = "base"
    /\ pc = "idle"
    /\ frame = NoFrame
    /\ ncalls = 0
    /\ sinks = <<>>
    /\ tasks = [i \in {} |-> NewTask(EmptyConfig)]
    /\ archive = [b \in {} |-> None]
    /\ cache = [k \in {} |-> None]
    /\ contacts = <<>>
    /\ wrapper = NoWrapper

NextConfigure ==
    \E args \in ConfigureArgs : args.env = env /\ CallInit(args, 1)

SpecConfigure == InitConfigure /\ [][NextConfigure]_vars

\* SpecTasks: two invocations of publish_pricing_update running concurrently,
\* both sinks on, on the same cache key and the same archive bucket and key,
\* each with a payload of its own
SharedOrder(i) ==
    [ticker |-> <<"AAPL">>, s3_enabled |-> TRUE, redis_enabled |-> TRUE,
     s3_key |-> <<"key">>, redis_key |-> <<"key">>, data |-> <<"payload", i>>]

InitTasks ==
    /\ algo = NewAlgo(DefaultArgs, [exists |-> FALSE, content |-> None]).algo
    /\ strategy = "base"
    /\ Fresh
    /\ tasks = [i \in Invocations |-> NewTask(SharedOrder(i))]
    /\ archive \in {[b \in {} |-> None], [b \in {<<"pricing">>} |-> [k \in {} |-> None]]}
    /\ cache = [k \in {} |-> None]
    /\ contacts = <<>>
    /\ env = DefaultEnv
    /\ wrapper = NoWrapper

SpecTasks == InitTasks /\ [][NextTask]_vars

\* SpecWrapper: one call of run_publish_pricing_update, under either value
\* of CELERY_DISABLED or none
InitWrapper ==
    /\ algo = NewAlgo(DefaultArgs, [exists |-> FALSE, content |-> None]).algo
    /\ strategy = "base"
    /\ Fresh
    /\ tasks = [i \in {} |-> NewTask(EmptyConfig)]
    /\ archive \in {[b \in {} |-> None], [b \in {<<"pricing">>} |-> [k \in {} |-> None]]}
    /\ cache = [k \in {} |-> None]
    /\ contacts = <<>>
    /\ \E c \in Field("CELERY_DISABLED", {<<"1">>, <<"0">>}) : env = c @@ DefaultEnv
    /\ wrapper = NoWrapper

NextWrapper ==
    \/ \E w \in WorkOrders : RunPublishPricingUpdate(w)
    \/ RunReturnInline
    \/ \E raises \in BOOLEAN : RunReturnDelay(raises)
    \/ NextTask

SpecWrapper == InitWrapper /\ [][NextWrapper]_vars

\* ------------------------------------------------------------------ claims

\* the step is a finished call of the method op
Called(op) == last_call'.op = op /\ ncalls' = ncalls + 1

\* the total shares of the filled orders of a sequence of orders
RECURSIVE FilledShares(_)
FilledShares(orders) ==
    IF orders = <<>> THEN 0
    ELSE (IF Head(orders).status = TRADE_FILLED THEN Head(orders).shares ELSE 0)
         + FilledShares(Tail(orders))

\* the id a trade history entry of the node is expected to carry
NodeId(node) == IF "id" \in DOMAIN node THEN node.id ELSE <<"missing-ID">>

\* the ids of the nodes of the map data under the tickers listed, in the order
\* of the list and, within a ticker, of its nodes
RECURSIVE ExpectedIds(_, _)
ExpectedIds(tickers, data) ==
    IF tickers = <<>> THEN <<>>
    ELSE LET t == tickers[Len(tickers)]
         IN  ExpectedIds(SubSeq(tickers, 1, Len(tickers) - 1), data)
             \o (IF t \in DOMAIN data
                 THEN [k \in 1..Len(data[t]) |-> NodeId(data[t][k])] ELSE <<>>)

\* a ticker list without its repetitions (the first occurrence stays)
RECURSIVE FirstOccurrences(_)
FirstOccurrences(tickers) ==
    IF tickers = <<>> THEN <<>>
    ELSE LET front == SubSeq(tickers, 1, Len(tickers) - 1)
             t == tickers[Len(tickers)]
         IN  IF \E i \in 1..Len(front) : front[i] = t
             THEN FirstOccurrences(front)
             ELSE Append(FirstOccurrences(front), t)

\* s is t with some elements left out
RECURSIVE SubsequenceOf(_, _)
SubsequenceOf(s, t) ==
    IF s = <<>> THEN TRUE
    ELSE IF t = <<>> THEN FALSE
    ELSE IF Head(s) = Head(t) THEN SubsequenceOf(Tail(s), Tail(t))
    ELSE SubsequenceOf(s, Tail(t))

\* handle_data has returned to its caller without raising
HandleDataReturned ==
    pc = "idle" /\ last_call.op = "handle_data" /\ ~last_call.raised

\* the entries the returned handle_data call appended, and their dataset ids
Appended ==
    SubSeq(algo.order_history, Len(frame.base) + 1, Len(algo.order_history))
AppendedIds == [k \in 1..Len(Appended) |-> Appended[k].ds_id]

\* the map the call replayed: the dataset loaded at construction when there is
\* one, else the map passed
ReplayedMap ==
    IF algo.loaded_dataset # None THEN algo.loaded_dataset[1] ELSE frame.passed

C2_BuyFillsMaxAffordable ==
    [][(/\ Called("create_buy_order")
        /\ last_call'.order # None
        /\ last_call'.shares = None
        /\ last_call'.ticker \notin DOMAIN algo.positions
        /\ algo.balance >= last_call'.close + algo.commission)
       => LET t == last_call'.ticker
              p == last_call'.close
              o == last_call'.order[1]
              n == (algo.balance - algo.commission) \div p
          IN  /\ o.status = TRADE_FILLED
              /\ o.shares = n
              /\ algo'.balance = algo.balance - (n * p + algo.commission)
              /\ t \in DOMAIN algo'.positions
              /\ algo'.positions[t].shares = n
              /\ algo'.positions[t].buys = <<o>>]_vars

\* C2, witness: balance 8, commission 1, close 3: two shares bought, 1 left
C2_Witness ==
    /\ last_call.op = "create_buy_order"
    /\ ncalls = 1
    /\ last_call.shares = None
    /\ last_call.close = 3
    /\ last_call.order # None
    /\ last_call.order[1].status = TRADE_FILLED
    /\ last_call.ticker \in DOMAIN algo.positions
    /\ algo.positions[last_call.ticker].shares = 2
    /\ algo.balance = 1

\* the balance cannot pay for the shares the buy is for
CannotPay(balance, commission, close, shares) ==
    IF shares = None THEN balance < close + commission
    ELSE balance < shares[1] * close + commission

\* C3: create_buy_order when the balance cannot pay for one share plus
\* commission (or for the requested share count plus commission): the order is
\* unfilled, balance and positions are unchanged, and the unfilled order is
\* appended to the lifetime buy list, which grows by exactly one.
C3_UnaffordableBuyIsRecorded ==
    [][(/\ Called("create_buy_order")
        /\ last_call'.order # None
        /\ CannotPay(algo.balance, algo.commission, last_call'.close,
                     last_call'.shares))
       => /\ last_call'.order[1].status # TRADE_FILLED
          /\ algo'.balance = algo.balance
          /\ algo'.positions = algo.positions
          /\ algo'.buys = Append(algo.buys, last_call'.order[1])]_vars

\* C3, witness: a second buy that cannot be paid after a first one was filled
C3_Witness ==
    /\ last_call.op = "create_buy_order"
    /\ last_call.order # None
    /\ last_call.order[1].status = TRADE_NOT_ENOUGH_FUNDS
    /\ Len(algo.buys) = 2
    /\ algo.buys[1].status = TRADE_FILLED
    /\ DOMAIN algo.positions = {algo.buys[1].ticker}

\* C4 (as claimed): create_sell_order with no share count for a ticker whose
\* position holds n > 0 shares: the order is TRADE_FILLED, the balance grows by
\* n * close - commission, the order is appended to the position's and the
\* engine's sell lists, and the position's share count becomes 0.
C4_SellAllEmptiesPosition ==
    [][(/\ Called("create_sell_order")
        /\ last_call'.order # None
        /\ last_call'.shares = None
        /\ last_call'.ticker \in DOMAIN algo.positions
        /\ algo.positions[last_call'.ticker].shares > 0)
       => LET t == last_call'.ticker
              o == last_call'.order[1]
              n == algo.positions[t].shares
          IN  /\ o.status = TRADE_FILLED
              /\ algo'.balance = algo.balance + (n * last_call'.close - algo.commission)
              /\ algo'.positions[t].sells = Append(algo.positions[t].sells, o)
              /\ algo'.sells = Append(algo.sells, o)
              /\ algo'.positions[t].shares = 0]_vars

\* C5: create_sell_order for a ticker with no position: the order is unfilled,
\* the balance is unchanged, no position is created and num_owned is None or 0.
C5_SellWithoutPositionIsUnfilled ==
    [][(/\ Called("create_sell_order")
        /\ last_call'.order # None
        /\ last_call'.ticker \notin DOMAIN algo.positions)
       => /\ last_call'.order[1].status # TRADE_FILLED
          /\ algo'.balance = algo.balance
          /\ algo'.positions = algo.positions
          /\ algo'.num_owned \in {None, Opt(0)}]_vars

\* C5, witness: a sell of a ticker never bought, after another ticker was bought
C5_Witness ==
    /\ last_call.op = "create_sell_order"
    /\ last_call.order # None
    /\ last_call.order[1].status = TRADE_NO_SHARES_TO_SELL
    /\ last_call.ticker \notin DOMAIN algo.positions
    /\ DOMAIN algo.positions # {}
    /\ Len(algo.sells) = 1

\* C6 (as claimed): after any sequence of buy and sell calls, every position's
\* shares is >= 0 and equals the shares of its filled buys minus the shares of
\* its filled sells, and a position once created is never removed.
C6_PositionSharesAreBuysMinusSells ==
    [][/\ \A t \in DOMAIN algo'.positions :
             /\ algo'.positions[t].shares >= 0
             /\ algo'.positions[t].shares =
                    FilledShares(algo'.positions[t].buys)
                    - FilledShares(algo'.positions[t].sells)
       /\ DOMAIN algo.positions \subseteq DOMAIN algo'.positions]_vars

\* the three publish methods
PublishOps ==
    {"publish_input_datasets", "publish_trade_history", "publish_report_datasets"}

\* the step is a finished call of one of the publish methods in ops
CalledPublish(ops) == last_call'.op \in ops /\ ncalls' = ncalls + 1

\* the publish flag and the configured output file of the surface of method op
SurfaceEnabled(a, op) ==
    CASE op = "publish_input_datasets" -> a.publish_input
      [] op = "publish_trade_history" -> a.publish_history
      [] op = "publish_report_datasets" -> a.publish_report
SurfaceFile(a, op) ==
    CASE op = "publish_input_datasets" -> a.input_output_file
      [] op = "publish_trade_history" -> a.history_output_file
      [] op = "publish_report_datasets" -> a.report_output_file
SurfaceKind(op) ==
    CASE op = "publish_input_datasets" -> "input"
      [] op = "publish_trade_history" -> "history"
      [] op = "publish_report_datasets" -> "report"

\* the output file a call resolves: its override when given, else the surface's
ResolvedFile(a, op, kwargs) ==
    IF "output_file" \in DOMAIN kwargs THEN kwargs.output_file
    ELSE SurfaceFile(a, op)

\* C7: for each of the three publish methods, when the surface's publish flag
\* is off the call returns (NOT_RUN, output_file), output_file being the file
\* the call resolves, hands nothing to the Multi-Sink Publish Utility and
\* leaves every engine member variable unchanged.
C7_DisabledPublishIsNoOp ==
    [][(CalledPublish(PublishOps) /\ ~SurfaceEnabled(algo, last_call'.op))
       => LET file == ResolvedFile(algo, last_call'.op, last_call'.kwargs)
          IN  /\ ~last_call'.raised
              /\ last_call'.status = NOT_RUN
              /\ (~algo.raise_on_err \/ ~Falsy(file))
                     => last_call'.output_file = file
              /\ sinks' = sinks
              /\ algo' = algo]_vars

\* C7, witness: publish_input_datasets, switched off, called on an engine that
\* has a replayed map to publish
C7_Witness ==
    /\ last_call.op = "publish_input_datasets"
    /\ ~algo.publish_input
    /\ algo.last_handle_data # None
    /\ last_call.status = NOT_RUN
    /\ last_call.output_file = <<"call.json">>
    /\ sinks = <<>>
    /\ ncalls = 1

\* the two methods C8 is about
ReportAndHistory == {"publish_report_datasets", "publish_trade_history"}

DefaultFile(a, op) ==
    Fmt(a.output_file_dir) \o <<"/", SurfaceKind(op), "-">> \o a.save_as_key
    \o <<".json">>

SupportedAt(tickers, data) == {i \in 1..Len(tickers) : tickers[i] \in DOMAIN data}

\* the k-th smallest element of a set of numbers
KthOf(S, k) == CHOOSE i \in S : Cardinality({j \in S : j < i}) = k - 1

\* C9 (as amended): get_supported_tickers_in_data(data) returns the engine's
\* configured tickers that are keys of data, in the configured order, each as
\* many times as the configured list holds it, and changes no engine state.
C9_SupportedTickersInConfiguredOrder ==
    [][(last_call'.op = "get_supported_tickers_in_data")
       => LET at == SupportedAt(algo.tickers, last_call'.data)
              ret == last_call'.ret
          IN  /\ Len(ret) = Cardinality(at)
              /\ \A k \in 1..Len(ret) : ret[k] = algo.tickers[KthOf(at, k)]
              /\ algo' = algo]_vars

\* C9, witness: tickers SPY, AAPL and a map holding AAPL (and TSLA) only
C9_Witness ==
    /\ last_call.op = "get_supported_tickers_in_data"
    /\ algo.tickers = <<"SPY", "AAPL">>
    /\ DOMAIN last_call.data = {"AAPL", "TSLA"}
    /\ last_call.ret = <<"AAPL">>

\* C9 (as claimed): the tickers returned are exactly the configured tickers
\* that are keys of data, each once, in the configured order, and no engine
\* state changes.
C9_SupportedTickersEachOnce ==
    [][(last_call'.op = "get_supported_tickers_in_data")
       => LET ret == last_call'.ret
              first(t) == CHOOSE i \in 1..Len(algo.tickers) :
                              /\ algo.tickers[i] = t
                              /\ \A j \in 1..(i - 1) : algo.tickers[j] # t
          IN  /\ {ret[k] : k \in 1..Len(ret)} =
                     {algo.tickers[i] : i \in SupportedAt(algo.tickers, last_call'.data)}
              /\ \A j, k \in 1..Len(ret) : j # k => ret[j] # ret[k]
              /\ \A j, k \in 1..Len(ret) : j < k => first(ret[j]) < first(ret[k])
              /\ algo' = algo]_vars

\* the work order of invocation i lacks the ticker: no key, or an empty value
LacksTicker(w) == "ticker" \notin DOMAIN w \/ Falsy(w.ticker)

\* the contacts invocation i made on the sinks
ContactsBy(i) == {k \in 1..Len(contacts) : contacts[k].by = i}

\* C10 (as claimed): publish_pricing_update on a work order that lacks the
\* ticker (key absent or value empty), whatever its other fields, returns an
\* ERR envelope whose err is "missing ticker", and contacts neither the
\* archive nor the cache.
C10_MissingTickerIsErr ==
    \A i \in DOMAIN tasks :
        (tasks[i].pc = "done" /\ LacksTicker(tasks[i].work_dict))
        => /\ tasks[i].res.status = ERR
           /\ tasks[i].res.err = <<"missing ticker">>
           /\ ContactsBy(i) = {}

\* the contacts invocation i made on the sink
ContactsOn(i, sink) == {k \in ContactsBy(i) : contacts[k].sink = sink}

\* invocation i has returned with the archive switched on and the cache off
ArchiveOnly(i) ==
    /\ tasks[i].pc = "done"
    /\ tasks[i].rec.s3_enabled = TRUE
    /\ tasks[i].rec.redis_enabled = FALSE

\* C11: publish_pricing_update with the archive enabled and the cache disabled
\* makes no cache connection or write, and once the archive client is built,
\* whether the bucket check, the bucket creation and the object write go
\* through or fail, the envelope returned has status SUCCESS and no err.
C11_ArchiveOnlyFailureIsSuccess ==
    \A i \in DOMAIN tasks :
        ArchiveOnly(i)
        => /\ ContactsOn(i, "cache") = {}
           /\ ContactsOn(i, "archive") # {}
                  => /\ tasks[i].res.status = SUCCESS
                     /\ tasks[i].res.err = None
                     /\ tasks[i].res.rec = Opt(tasks[i].rec)

\* C11, witness: an archive-only invocation returned after its bucket check
\* and its object write both failed
C11_Witness ==
    \E i \in DOMAIN tasks :
        /\ ArchiveOnly(i)
        /\ \E k \in ContactsOn(i, "archive") :
              contacts[k].op = "buckets.all" /\ ~contacts[k].ok
        /\ \E k \in ContactsOn(i, "archive") :
              contacts[k].op = "put_object" /\ ~contacts[k].ok
        /\ tasks[i].res.status = SUCCESS

\* invocation i has returned with both sinks switched on
BothSinks(i) ==
    /\ tasks[i].pc = "done"
    /\ tasks[i].rec.s3_enabled = TRUE
    /\ tasks[i].rec.redis_enabled = TRUE

\* invocation i called op on the sink
Attempted(i, sink, op) == \E k \in ContactsOn(i, sink) : contacts[k].op = op

\* the cache address of the work order w has a host and a port
AddressParses(w) == Len(Split(Get(w, "redis_address", REDIS_ADDRESS))) >= 2

\* the envelope is the one of the outer except, for the exception ex
EscapedWith(i, ex) == tasks[i].res = OuterExcept(tasks[i].work_dict, ex)

\* C12 (as claimed): with both sinks enabled no failure at a step of one sink
\* keeps the other sink's write from being attempted: the cache set is
\* attempted whenever the cache's own address parses, whatever happened at
\* the archive, and the archive object write is attempted whenever the
\* archive's own client was built, whatever happened at the cache.
C12_SinkFailuresAreContained ==
    \A i \in DOMAIN tasks :
        BothSinks(i)
        => /\ AddressParses(tasks[i].work_dict) => Attempted(i, "cache", "set")
           /\ ~EscapedWith(i, "s3") => Attempted(i, "archive", "put_object")

\* invocation i returned through the outer except
Escaped(i) ==
    /\ tasks[i].pc = "done"
    /\ \E ex \in {"int", "s3", "index"} : EscapedWith(i, ex)

\* C13 (as claimed): when an exception reaches the outer except of
\* publish_pricing_update, the envelope returned has status ERR, an err that
\* embeds the work order and the exception, and as rec the task's rec record
\* as it stood when the exception was raised.
C13_EscapeKeepsRec ==
    \A i \in DOMAIN tasks :
        Escaped(i)
        => /\ tasks[i].res.status = ERR
           /\ tasks[i].res.err # None
           /\ tasks[i].res.rec = Opt(tasks[i].rec)

\* every invocation has returned
AllReturned == \A i \in DOMAIN tasks : tasks[i].pc = "done"

\* C14: every invocation of publish_pricing_update, whatever its work order
\* and whatever the sinks do, comes to its return, and what it returns is an
\* envelope with status SUCCESS or ERR, never NOT_RUN: no exception goes past
\* the outer except.
C14_AlwaysReturnsEnvelope ==
    /\ [](\A i \in DOMAIN tasks :
             tasks[i].pc = "done" => tasks[i].res.status \in {SUCCESS, ERR})
    /\ <>AllReturned

\* C14, witness: an invocation with the archive on returned ERR after an
\* exception was raised outside the inner tries
C14_Witness ==
    \E i \in DOMAIN tasks :
        /\ Escaped(i)
        /\ tasks[i].res.status = ERR
        /\ tasks[i].rec.s3_enabled = TRUE

\* C15 (as claimed): run_publish_pricing_update, in-process or queued, returns
\* an envelope whose status, err and rec are those of the result of the task
\* body, which has run once by then.
C15_WrapperReturnsTaskResult ==
    wrapper.pc = "returned"
    => /\ ~wrapper.raised
       /\ tasks["a"].pc = "done"
       /\ wrapper.response.status = tasks["a"].res.status
       /\ wrapper.response.err = tasks["a"].res.err
       /\ wrapper.response.rec = tasks["a"].res.rec

\* the position in the contacts log of the last call of op on the sink that
\* went through (0: none did)
LastWrite(sink, op) ==
    LET S == {k \in 1..Len(contacts) : /\ contacts[k].sink = sink
                                       /\ contacts[k].op = op
                                       /\ contacts[k].ok}
    IN  IF S = {} THEN 0 ELSE CHOOSE k \in S : \A j \in S : j <= k

\* the payload of the invocation that made contact k
PayloadAt(k) == Get(tasks[contacts[k].by].work_dict, "data", None)

\* C16: for any interleaving of two concurrent invocations on the same cache
\* key and the same archive bucket and key (both may find the bucket absent
\* and both try to create it), every invocation that comes to its sinks
\* returns SUCCESS, and the cache key holds exactly the payload of the
\* invocation whose cache write went through last, the archive object
\* exactly the encoded payload of the invocation whose object write went
\* through last.
C16_LastWriterWins ==
    /\ \A i \in DOMAIN tasks :
          (tasks[i].pc = "done" /\ ~Escaped(i)) => tasks[i].res.status = SUCCESS
    /\ LET k == LastWrite("cache", "set")
       IN  IF k = 0 THEN cache = [x \in {} |-> None]
           ELSE cache = (<<"key">> :> PayloadAt(k))
    /\ LET k == LastWrite("archive", "put_object")
       IN  IF k = 0 THEN \A b \in DOMAIN archive : DOMAIN archive[b] = {}
           ELSE archive = (<<"pricing">> :> (<<"key">> :> Dumps(PayloadAt(k))))

\* C16, witness: both invocations found the bucket absent and both tried to
\* create it, both returned SUCCESS, and the cache holds the payload of one
\* while the archive holds the payload of the other
C16_Witness ==
    /\ AllReturned
    /\ \A i \in Invocations :
          /\ tasks[i].res.status = SUCCESS
          /\ Attempted(i, "archive", "create_bucket")
    /\ LastWrite("cache", "set") # 0
    /\ LastWrite("archive", "put_object") # 0
    /\ contacts[LastWrite("cache", "set")].by = "a"
    /\ contacts[LastWrite("archive", "put_object")].by = "b"
    /\ cache[<<"key">>] = <<"payload", "a">>
    /\ archive[<<"pricing">>][<<"key">>] = Dumps(<<"payload", "b">>)

\* the constructor or a caller has just run load_from_external_source
RanExternalLoad == last_call.op \in {"__init__", "load_from_external_source"}

\* C17 (as claimed): whenever a file selector is set, whether or not an
\* archive or cache selector is set too, load_from_external_source takes the
\* local file: a file that is there and readable ends up in loaded_dataset.
C17_FileSelectorTakesPrecedence ==
    (/\ RanExternalLoad
     /\ ~Falsy(algo.load_from_file)
     /\ last_call.file.exists
     /\ last_call.file.content # None)
    => /\ ~last_call.raised
       /\ algo.loaded_dataset = last_call.file.content

\* C18 (as claimed): when a file selector is set and the file is not there,
\* or the Dataset File Loader gives a falsy result, load_from_external_source
\* raises, for both values of raise_on_err; loaded_dataset holds no partial
\* dataset and debug_msg names the failure.
C18_FailedFileLoadRaises ==
    /\ algo.loaded_dataset \in {None, Opt(FileDataset)}
    /\ (/\ RanExternalLoad
        /\ ~Falsy(algo.load_from_file)
        /\ (~last_call.file.exists \/ last_call.file.content = None))
       => /\ last_call.raised
          /\ algo.debug_msg = IF last_call.file.exists
                               THEN <<"external load FAILED">>
                               ELSE <<"external load - did not find file">>

\* C19: load_from_config is idempotent: applying the map a second time to
\* the engine it left changes no member variable; it overwrites exactly the
\* member variables the map names and the engine has, and creates none.
C19_LoadFromConfigIdempotent ==
    [][(last_call'.op = "load_from_config" /\ ncalls' = ncalls + 1)
       => LET c == last_call'.config_dict
          IN  /\ LoadFromConfig(algo', c) = algo'
              /\ DOMAIN algo' = DOMAIN algo
              /\ \A k \in DOMAIN algo :
                    algo'[k] = IF k \in DOMAIN c THEN c[k] ELSE algo[k]]_vars

\* C19, witness: a map with a member and a key the engine has not was applied
\* to an engine whose balance differed
C19_Witness ==
    /\ last_call.op = "load_from_config"
    /\ "not_a_member" \in DOMAIN last_call.config_dict
    /\ algo.balance = 3
    /\ algo.starting_balance = 8

\* the thirteen dataset keys
DatasetKeys == {TabularKeys[m] : m \in DOMAIN TabularKeys} \cup {"pricing"}

\* C20 (as claimed): load_from_dataset on a node whose data map holds none of
\* the thirteen dataset keys raises nothing and leaves the twelve tabular
\* members set to the shared empty placeholder and the pricing member set to
\* an empty map.
C20_NoKeyGivesPlaceholders ==
    (/\ last_call.op = "load_from_dataset"
     /\ "data" \in DOMAIN last_call.node
     /\ DOMAIN last_call.node.data \cap DatasetKeys = {})
    => /\ ~last_call.raised
       /\ \A m \in DOMAIN TabularKeys : algo[m] = EmptyPd
       /\ algo.df_pricing = Dict(<<>>)


\* the engine the last call constructed was given the output directory D
ConstructedIn(D) ==
    /\ last_call.op = "__init__"
    /\ ~last_call.raised
    /\ last_call.args.output_dir = D

\* the file of the given kind ('', 'input-', ...) under D for the key K
FileUnder(D, kind, K) == D \o <<"/">> \o kind \o K \o <<".json">>

\* C21: an engine given the output directory D has, K being its tracking
\* key, the default output file D/K.json, and the input, history and report
\* output files D/input-K.json, D/history-K.json and D/report-K.json when the
\* surface's configuration map names no file
C21_DefaultFilesUnderOutputDir ==
    \A D \in OutputDirs \ {None, EmptyStr} :
        ConstructedIn(D) =>
            LET K == algo.save_as_key
                args == last_call.args
            IN  /\ algo.default_output_file = FileUnder(D, <<>>, K)
                /\ "output_file" \notin DOMAIN args.input_config =>
                       algo.input_output_file = FileUnder(D, <<"input-">>, K)
                /\ "output_file" \notin DOMAIN args.history_config =>
                       algo.history_output_file = FileUnder(D, <<"history-">>, K)
                /\ "output_file" \notin DOMAIN args.report_config =>
                       algo.report_output_file = FileUnder(D, <<"report-">>, K)

\* the payload a surface would hand over for the value v it publishes
PayloadOf(surface, v) == <<surface, v>>

\* C22: what publish_trade_history hands to the Multi-Sink Publish Utility is
\* the serialization of the engine's order_history, and what
\* publish_report_datasets hands over is a serialization made for the report
C22_PayloadIsHistoryOrReport ==
    \A k \in DOMAIN sinks :
        /\ sinks[k].surface = "history" =>
               sinks[k].data = PayloadOf("history", algo.order_history)
        /\ sinks[k].surface = "report" => sinks[k].data[1] = "report"

\* invocation i made a write on the sink that went through
Wrote(i, sink, op) ==
    \E k \in ContactsOn(i, sink) : contacts[k].op = op /\ contacts[k].ok

\* C23: the rec of every SUCCESS envelope of publish_pricing_update holds the
\* work order's ticker and ticker id, and its s3_bucket, s3_key and redis_key
\* name the archive object and the cache key the invocation wrote
C23_RecNamesWhatWasWritten ==
    \A i \in DOMAIN tasks :
        (tasks[i].pc = "done" /\ tasks[i].res.status = SUCCESS) =>
            LET rec == tasks[i].res.rec[1]
                w == tasks[i].work_dict
            IN  /\ rec.ticker = Get(w, "ticker", TICKER)
                /\ rec.ticker_id = IntOf(Get(w, "ticker_id", TICKER_ID))
                /\ Wrote(i, "archive", "put") =>
                       /\ rec.s3_bucket \in DOMAIN archive
                       /\ rec.s3_key \in DOMAIN archive[rec.s3_bucket]
                /\ Wrote(i, "cache", "set") =>
                       /\ rec.redis_key \in DOMAIN cache
                       /\ cache[rec.redis_key] = Get(w, "data", None)

\* the process has constructed two engines, neither given a tracking key, both
\* with the same ticker and name
TwoDefaultKeyed ==
    /\ last_call.op = "__init__"
    /\ ~last_call.raised
    /\ last_call.before # None
    /\ Falsy(last_call.args.use_key)
    /\ Falsy(last_call.before[1].args.use_key)
    /\ last_call.args.name = last_call.before[1].args.name
    /\ last_call.args.ticker = last_call.before[1].args.ticker

\* C24: two engines constructed in one process with the same ticker and name
\* and no explicit tracking key have different tracking keys exactly when the
\* two constructions read different times off the clock
C24_DefaultKeysDifferWithClock ==
    TwoDefaultKeyed =>
        (algo.save_as_key # last_call.before[1].algo.save_as_key
            <=> last_call.tick # last_call.before[1].tick)

\* two such engines constructed at different clock values, with different keys
C24_Witness ==
    /\ TwoDefaultKeyed
    /\ last_call.tick # last_call.before[1].tick
    /\ algo.save_as_key # last_call.before[1].algo.save_as_key

\* C24 as stated: the two keys differ whatever the two constructions read off
\* the clock
C24_DefaultKeysAlwaysDistinct ==
    TwoDefaultKeyed => algo.save_as_key # last_call.before[1].algo.save_as_key

\* the step is a finished call of the method op whose order came back filled
CalledFilled(op) ==
    /\ Called(op)
    /\ last_call'.order # None
    /\ last_call'.order[1].status = TRADE_FILLED

\* the step is a finished call of the method op with no order or an unfilled one
CalledUnfilled(op) == Called(op) /\ ~CalledFilled(op)

\* C25: created_buy is true after every create_buy_order whose order is
\* TRADE_FILLED, created_sell after every filled create_sell_order, and a call
\* whose order is not filled leaves its flag as it was
C25_FilledOrderSetsCreatedFlag ==
    [][/\ CalledFilled("create_buy_order") => algo'.created_buy
       /\ CalledFilled("create_sell_order") => algo'.created_sell
       /\ CalledUnfilled("create_buy_order") => algo'.created_buy = algo.created_buy
       /\ CalledUnfilled("create_sell_order") =>
              algo'.created_sell = algo.created_sell]_vars

\* the node handle_data is at
CurrentNode == frame.work[frame.k]

\* none of the four trigger flags of the engine a is set
NoTrigger(a) ==
    ~a.created_buy /\ ~a.created_sell /\ ~a.should_buy /\ ~a.should_sell

\* the engine a holds the node's id, date and datasets
HoldsNode(a, w) ==
    /\ a.ticker = Opt(w.ticker)
    /\ a.ds_id = NodeId(w.node)
    /\ a.trade_date = w.node.date
    /\ a.ds_data = Opt(w.node.data)
    /\ \A m \in DOMAIN TabularKeys :
           a[m] = Loaded(w.node.data, TabularKeys[m], EmptyPd)

CloseOf(node) ==
    IF "data" \notin DOMAIN node \/ "daily" \notin DOMAIN node.data THEN None
    ELSE IF ~HasEmpty(node.data.daily) THEN None
    ELSE Get(node.data.daily.columns, "close", None)

Unreadable(node) ==
    /\ "data" \in DOMAIN node
    /\ "daily" \in DOMAIN node.data
    /\ HasEmpty(node.data.daily)
    /\ "close" \in DOMAIN node.data.daily.columns
    /\ node.data.daily.columns["close"] = None

CalledOrder == Called("create_buy_order") \/ Called("create_sell_order")

\* the order-construction call of the finished call raised
BuilderRaised == last_call'.dated /\ last_call'.fails

\* C29: when the order-construction call inside create_buy_order or
\* create_sell_order raises, an engine with raise_on_err off returns normally
\* with the failure in debug_msg and its balance, positions and lifetime
\* lists unchanged, and an engine with raise_on_err on raises; with
\* raise_on_err off no call of the two methods raises
C29_OrderFailuresFollowRaiseOnErr ==
    [][CalledOrder =>
          /\ (BuilderRaised /\ ~algo.raise_on_err) =>
                 /\ ~last_call'.raised
                 /\ algo'.debug_msg \in {<<"buy FAILED">>, <<"sell FAILED">>}
                 /\ algo'.balance = algo.balance
                 /\ algo'.positions = algo.positions
                 /\ algo'.buys = algo.buys
                 /\ algo'.sells = algo.sells
          /\ (BuilderRaised /\ algo.raise_on_err) => last_call'.raised
          /\ ~algo.raise_on_err => ~last_call'.raised]_vars

\* C30: load_from_dataset on a node that lacks id, date or data raises
\* nothing, takes "missing-ID", "missing-DATE" and "missing-DATA" for what is
\* lacking, and, when data is lacking, leaves the tabular members set to the
\* empty placeholder
C30_IncompleteNodeIsAccepted ==
    (/\ last_call.op = "load_from_dataset"
     /\ {"id", "date", "data"} \ DOMAIN last_call.node # {})
    => /\ ~last_call.raised
       /\ algo.ds_id = Get(last_call.node, "id", <<"missing-ID">>)
       /\ algo.ds_date = Get(last_call.node, "date", <<"missing-DATE">>)
       /\ algo.trade_date = algo.ds_date
       /\ "data" \notin DOMAIN last_call.node =>
              /\ algo.ds_data = <<"missing-DATA">>
              /\ \A m \in DOMAIN TabularKeys : algo[m] = EmptyPd

\* C31: after load_from_dataset on a node whose data holds a pricing map and
\* tables, df_pricing is the map supplied and every tabular member whose key
\* holds a table is that table
C31_MembersHoldSuppliedValues ==
    (/\ last_call.op = "load_from_dataset"
     /\ ~last_call.raised
     /\ "data" \in DOMAIN last_call.node)
    => LET data == last_call.node.data
       IN  /\ \A m \in DOMAIN TabularKeys :
                  (TabularKeys[m] \in DOMAIN data /\ HasEmpty(data[TabularKeys[m]]))
                      => algo[m] = data[TabularKeys[m]]
           /\ ("pricing" \in DOMAIN data /\ ~HasEmpty(data.pricing))
                  => algo.df_pricing = data.pricing

\* the three surfaces with the argument that carries the caller's map of each
SurfaceArg == [input |-> "input_config", history |-> "history_config",
               report |-> "report_config"]

\* analysis_engine.consts: what the process-wide default of a field of the
\* surface is, the toggles being e
ProcessDefault(surface, field, e) ==
    CASE field = "redis_address" -> REDIS_ADDRESS
      [] field = "s3_address" -> S3_ADDRESS
      [] field = "redis_enabled" -> e.ENABLED_REDIS_PUBLISH
      [] field = "s3_enabled" -> e.ENABLED_S3_UPLOAD
      [] field = "compress" ->
             (CASE surface = "input" -> ALGO_INPUT_COMPRESS
                [] surface = "history" -> ALGO_HISTORY_COMPRESS
                [] surface = "report" -> ALGO_REPORT_COMPRESS)
      [] field = "s3_bucket" ->
             (CASE surface = "input" -> ALGO_INPUT_DATASET_S3_BUCKET_NAME
                [] surface = "history" -> ALGO_HISTORY_DATASET_S3_BUCKET_NAME
                [] surface = "report" -> ALGO_REPORT_DATASET_S3_BUCKET_NAME)

\* the fields of a publish-configuration record that have a process-wide default
ProcessFields ==
    {"redis_address", "s3_address", "redis_enabled", "s3_enabled", "compress",
     "s3_bucket"}

\* an engine was constructed with no publish_to_s3 and publish_to_redis flag
ConstructedPlain ==
    /\ last_call.op = "__init__"
    /\ ~last_call.raised
    /\ last_call.args.publish_to_s3 = None
    /\ last_call.args.publish_to_redis = None

\* C32: after construction each field of each surface's publish-configuration
\* record holds the value of the caller's map when the map has the key, false
\* and empty values included, and the process-wide default of that field
\* otherwise; the cache address defaults to the process-wide cache address
C32_ConfigIsCallerValueOrDefault ==
    ConstructedPlain =>
        \A sf \in DOMAIN SurfaceArg, f \in ProcessFields :
            LET config == last_call.args[SurfaceArg[sf]]
            IN  algo.surface[sf][f] =
                    IF f \in DOMAIN config THEN config[f]
                    ELSE ProcessDefault(sf, f, last_call.args.env)

\* an engine was constructed with publish_to_s3=False and no s3_enabled in any
\* surface's map
ConstructedWithoutS3 ==
    /\ last_call.op = "__init__"
    /\ ~last_call.raised
    /\ last_call.args.publish_to_s3 = Opt(FALSE)
    /\ \A sf \in DOMAIN SurfaceArg :
           "s3_enabled" \notin DOMAIN last_call.args[SurfaceArg[sf]]

\* an engine was constructed with publish_to_redis=False and no redis_enabled
\* in any surface's map
ConstructedWithoutRedis ==
    /\ last_call.op = "__init__"
    /\ ~last_call.raised
    /\ last_call.args.publish_to_redis = Opt(FALSE)
    /\ \A sf \in DOMAIN SurfaceArg :
           "redis_enabled" \notin DOMAIN last_call.args[SurfaceArg[sf]]

\* C39: an engine constructed with publish_to_s3=False (publish_to_redis=False)
\* and no override in a surface's map has archive (cache) publishing disabled
\* on all three surfaces, whatever the process-wide toggles are
C39_FalseFlagDisablesSink ==
    /\ ConstructedWithoutS3 =>
           \A sf \in DOMAIN SurfaceArg : ~algo.surface[sf].s3_enabled
    /\ ConstructedWithoutRedis =>
           \A sf \in DOMAIN SurfaceArg : ~algo.surface[sf].redis_enabled

\* the fields of a request that the surface's publish-configuration record holds
RequestFields ==
    {"label", "compress", "redis_enabled", "redis_address", "s3_enabled",
     "s3_address", "slack_enabled", "verbose"}

\* the output file the surface is configured with
ConfiguredFile(a, surface) ==
    CASE surface = "input" -> a.input_output_file
      [] surface = "history" -> a.history_output_file
      [] surface = "report" -> a.report_output_file

\* C33: every field a publish method hands to the Multi-Sink Publish Utility is
\* the call's keyword argument when one is given and otherwise the value of the
\* surface's publish-configuration record, so overriding one field leaves the
\* others as configured
C33_RequestIsOverrideOrConfigured ==
    [][Len(sinks') = Len(sinks) + 1 =>
          LET req == sinks'[Len(sinks')]
              kw == last_call'.kwargs
          IN  /\ \A f \in RequestFields :
                     req[f] = Get(kw, f, algo'.surface[req.surface][f])
              /\ req.output_file =
                     Get(kw, "output_file", ConfiguredFile(algo', req.surface))]_vars

\* C34: publish_input_datasets with the input surface enabled returns INVALID
\* only when there is neither an output file nor an enabled sink; with no output
\* file and a cache, archive or chat sink enabled the payload is handed to the
\* Multi-Sink Publish Utility and its status is returned
C34_InvalidOnlyWithoutFileAndSink ==
    [][(/\ last_call'.op = "publish_input_datasets"
        /\ ncalls' = ncalls + 1
        /\ algo.publish_input
        /\ ~last_call'.raised
        /\ last_call'.status = INVALID)
       => LET kw == last_call'.kwargs
          IN  /\ Falsy(last_call'.output_file)
              /\ ~Get(kw, "redis_enabled", algo.surface.input.redis_enabled)
              /\ ~Get(kw, "s3_enabled", algo.surface.input.s3_enabled)
              /\ ~Get(kw, "slack_enabled", algo.surface.input.slack_enabled)]_vars

\* the number an optional share count stands for
SharesOf(o) == IF o = None THEN 0 ELSE o[1]

\* C35: the previous share count of the entry handle_data records for a node of
\* ticker T is the number of shares of T owned just before the node, and the
\* previous balance is the balance at that moment, also after a node of another
\* ticker: the snapshot taken before the node is right, process leaves it
\* alone, and the entry carries it
C35_EntryHoldsTickerSnapshot ==
    [][/\ (pc = "load" /\ pc' = "process") =>
              /\ SharesOf(algo'.prev_num_owned) =
                     GetOwnedShares(algo, CurrentNode.ticker)
              /\ algo'.prev_bal = Opt(algo.balance)
       /\ (pc = "process" /\ pc' = "history") =>
              /\ algo'.prev_num_owned = algo.prev_num_owned
              /\ algo'.prev_bal = algo.prev_bal
       /\ (pc = "history" /\ Len(algo'.order_history) = Len(algo.order_history) + 1) =>
              LET h == algo'.order_history[Len(algo'.order_history)]
              IN  /\ h.prev_num_owned = algo.prev_num_owned
                  /\ h.prev_balance = algo.prev_bal
                  /\ h.ticker = Opt(CurrentNode.ticker)]_vars

\* the members that make up the simulation state of an engine
SimulationState ==
    {"balance", "positions", "buys", "sells", "order_history", "created_buy",
     "created_sell", "should_buy", "should_sell", "ds_id", "trade_date",
     "latest_close", "trade_price", "df_pricing"} \cup DOMAIN TabularKeys

\* publish_input_datasets was called on an enabled surface and has returned
InputPublishReturned ==
    /\ last_call'.op = "publish_input_datasets"
    /\ ncalls' = ncalls + 1
    /\ algo.publish_input
    /\ ~last_call'.raised

\* C36: publish_input_datasets only reads the simulation state: balance,
\* positions, buys, sells, order_history, trigger flags, ds_id, trade_date, the
\* latest prices and the dataset members are after the call what they were
\* before it
C36_InputPublishOnlyReads ==
    [][InputPublishReturned =>
          \A k \in SimulationState : algo'[k] = algo[k]]_vars

\* a freshly constructed engine with the construction parameters of a
FreshOf(a) ==
    NewAlgo(ReuseArgs(a), [exists |-> FALSE, content |-> None]).algo

\* the engine has just been reset
JustReset == pc = "idle" /\ last_call.op = "reset_for_next_run"

\* C37: after reset_for_next_run, handle_data over a dataset map gives the same
\* trade history as on a freshly constructed engine with the same construction
\* parameters, whatever run came before the reset
C37_ResetReplaysLikeFresh ==
    JustReset =>
        \A d \in ReuseMaps :
            HandleData(algo, d).algo.order_history =
                HandleData(FreshOf(algo), d).algo.order_history

\* C38: in every state reachable by construction, handle_data and
\* reset_for_next_run, publish_input_datasets with the surface enabled and a
\* usable output file returns without raising, also when no handle_data has
\* run since construction or since the last reset
C38_InputPublishNeverRaises ==
    (last_call.op = "publish_input_datasets" /\ ~Falsy(last_call.output_file))
        => ~last_call.raised

\* the map a handle_data call works on: the dataset loaded at construction
\* when the engine holds one, the map passed to the call otherwise
UsedMap == IF algo.loaded_dataset # None THEN algo.loaded_dataset[1] ELSE frame.passed

====
